---- MODULE Spec2Model ----
(***************************************************************************)
(* State-machine model of the bulk downloader of BA-AD                     *)
(* (src/baad/utils/ResourceDownloader.py) together with the CRC-32 digest  *)
(* of src/baad/utils/CatalogParser.py.                                     *)
(*                                                                         *)
(* One download run is modelled: download() builds the category list and   *)
(* the semaphore, _download_all_categories walks the CatalogIndex category *)
(* by category, _download_category gathers one task per entry, and every   *)
(* task runs _download_file.  A task is atomic between two suspension      *)
(* points of the event loop (awaiting the HEAD response, the GET response, *)
(* a streamed chunk, the close of the written file, a backoff sleep).      *)
(* The server is the environment: what a HEAD or GET delivers is chosen    *)
(* nondeterministically.                                                   *)
(***************************************************************************)
EXTENDS Integers, Sequences, FiniteSets, TLC

(***************************************************************************)
(* Bounds of the model.                                                    *)
(***************************************************************************)
\* longest body, in chunks, that the server streams in one GET
MaxLen == 2
\* the finite --limit value tried
MaxLimit == 1

\* most files in one searched directory
MaxFiles == 2
\* most entries in the Android and in the media manifest
MaxEntries == 2
\* most containers opened and key streams derived in one run
MaxCalls == 2
\* longest key stream asked for, in bytes
MaxStream == 6
\* the most members an archive holds
MaxMembers == 2
\* the most dot-separated components of a version string
MaxParts == 3

(***************************************************************************)
(* Program constants.                                                      *)
(***************************************************************************)
\* retries: int = 3
Retries == 3
\* for i in range(10)
ProbeTries == 10

\* Python's None where the other values are integers
None == 0 - 1
\* the values one streamed chunk can take (one chunk is one byte here)
ChunkBytes == {0, 1}

(***************************************************************************)
(* CRC-32 (binascii.crc32 & 0xFFFFFFFF).  A 32-bit word is kept as the     *)
(* pair <<high 16 bits, low 16 bits>>.                                     *)
(***************************************************************************)
RECURSIVE Xor16(_, _)
Xor16(a, b) ==
    IF a = 0 THEN b
    ELSE IF b = 0 THEN a
    ELSE (((a % 2) + (b % 2)) % 2) + 2 * Xor16(a \div 2, b \div 2)

XorW(x, y) == <<Xor16(x[1], y[1]), Xor16(x[2], y[2])>>

ShrW(x) == <<x[1] \div 2, (x[2] \div 2) + (x[1] % 2) * 32768>>

\* the reflected polynomial 0xEDB88320
CrcPoly == <<60856, 33568>>

\* 0xFFFFFFFF
AllOnes == <<65535, 65535>>

\* n steps of the bitwise loop: shift right, xor the polynomial if a 1 fell out
RECURSIVE CrcBits(_, _)
CrcBits(c, n) ==
    IF n = 0 THEN c
    ELSE IF c[2] % 2 = 1 THEN CrcBits(XorW(ShrW(c), CrcPoly), n - 1)
    ELSE CrcBits(ShrW(c), n - 1)

\* the register after the bytes of d, starting from c
RECURSIVE CrcBytes(_, _)
CrcBytes(c, d) ==
    IF d = <<>> THEN c
    ELSE CrcBits(XorW(CrcBytes(c, SubSeq(d, 1, Len(d) - 1)), <<0, d[Len(d)]>>), 8)

crc32(d) == XorW(CrcBytes(AllOnes, d), AllOnes)

\* every content a file can have in the model
RECURSIVE SeqsUpTo(_)
SeqsUpTo(n) ==
    IF n = 0 THEN {<<>>}
    ELSE SeqsUpTo(n - 1) \cup
         {Append(s, b) : s \in {t \in SeqsUpTo(n - 1) : Len(t) = n - 1}, b \in ChunkBytes}

Contents == SeqsUpTo(MaxLen + 1)

\* binascii.crc32 tabulated over the contents (@@ makes the table explicit)
CrcTable == [d \in Contents |-> crc32(d)] @@ << >>

\* CatalogParser._calculate_crc32 applied to the bytes of a file
_calculate_crc32(d) == IF Len(d) <= MaxLen + 1 THEN CrcTable[d] ELSE crc32(d)

(***************************************************************************)
(* The CatalogIndex handed to the run (the result of initialize_download). *)
(* A URL and a path are sequences of segments.  The bundle entries carry   *)
(* url, crc and size; the media entry carries url, path, crc and bytes.    *)
(* Entry b has no Size in its manifest, so its declared size is 0.         *)
(***************************************************************************)
\* what the server holds under each entry name
Bodies == [a |-> <<1, 0>>, b |-> <<1>>, m |-> <<0>>]

Categories ==
    <<"AndroidAssetBundles", "iOSAssetBundles", "TableBundles", "MediaResources">>

server_url == <<"srv">>

game_files ==
    [AndroidAssetBundles |->
        << [url |-> server_url \o <<"Android", "a">>, crc |-> crc32(Bodies.a), size |-> 2],
           [url |-> server_url \o <<"Android", "b">>, crc |-> crc32(Bodies.b), size |-> 0] >>,
     iOSAssetBundles |-> << >>,
     TableBundles |-> << >>,
     MediaResources |->
        << [url |-> server_url \o <<"MediaResources", "d", "m">>, path |-> <<"d", "m">>,
            crc |-> crc32(Bodies.m), bytes |-> 1] >>]

\* an entry is <<index of its category, index in the category's list>>
Entries ==
    UNION {{<<c, k>> : k \in 1..Len(game_files[Categories[c]])} : c \in 1..Len(Categories)}

FileOf(e) == game_files[Categories[e[1]]][e[2]]

\* Path(url).name
PathName(p) == <<p[Len(p)]>>

_get_file_path(file) ==
    IF "path" \in DOMAIN file THEN file.path ELSE PathName(file.url)

\* base_path / self._get_file_path(file), with base_path = output / category
file_path(e) == <<"output", Categories[e[1]]>> \o _get_file_path(FileOf(e))

crc(e) == FileOf(e).crc

\* the declared size of the manifest entry: size, or bytes for a media entry
DeclaredSize(e) == IF "size" \in DOMAIN FileOf(e) THEN FileOf(e).size ELSE FileOf(e).bytes

(***************************************************************************)
(* The local tree.  A node is absent, a directory or a regular file with   *)
(* its bytes.                                                              *)
(***************************************************************************)
Absent == [kind |-> "absent", data |-> <<>>]
Dir == [kind |-> "dir", data |-> <<>>]
RegularFile(d) == [kind |-> "file", data |-> d]

Ancestors(p) == {SubSeq(p, 1, k) : k \in 1..(Len(p) - 1)}

Dests == {file_path(e) : e \in Entries}

Nodes == Dests \cup UNION {Ancestors(p) : p \in Dests}

\* Path.exists()
Exists(tree, p) == tree[p].kind # "absent"

\* the complete body of an entry: the bytes whose CRC-32 the manifest declares
Body(e) == Bodies[FileOf(e).url[Len(FileOf(e).url)]]

\* what a run can find at a destination: nothing, a directory in the way, the
\* complete body, or what an interrupted run left of it
LocalState(e, k) ==
    CASE k = "absent" -> Absent
      [] k = "dir" -> Dir
      [] k = "good" -> RegularFile(Body(e))
      [] k = "partial" -> RegularFile(SubSeq(Body(e), 1, Len(Body(e)) - 1))

\* the local states each destination is started in
LocalKinds(e) ==
    IF e = <<1, 1>> THEN {"absent", "dir", "good", "partial"}
    ELSE IF e = <<1, 2>> THEN {"absent", "good", "partial"}
    ELSE {"absent", "good"}

\* the starts of a run: at most one destination is not absent, or every
\* destination holds its complete body
LocalChoices ==
    {loc \in [Entries -> {"absent", "dir", "good", "partial"}] :
        /\ \A e \in Entries : loc[e] \in LocalKinds(e)
        /\ \/ Cardinality({e \in Entries : loc[e] # "absent"}) <= 1
           \/ \A e \in Entries : loc[e] = "good"}

\* the tree with the chosen node at each destination; blocked is a set of category
\* directories that are regular files (nothing can exist below them); what is
\* above a node that exists is a directory
TreeOf(loc, blocked) ==
    [p \in Nodes |->
        IF \E e \in Entries : p = file_path(e)
        THEN LET e == CHOOSE x \in Entries : p = file_path(x) IN LocalState(e, loc[e])
        ELSE IF \E e \in Entries : p \in Ancestors(file_path(e)) /\ loc[e] # "absent"
        THEN Dir
        ELSE IF p \in blocked THEN RegularFile(<<>>)
        ELSE IF \E b \in blocked : p \in Ancestors(b) THEN Dir
        ELSE Absent]

CategoryDirs == {<<"output", Categories[c]>> : c \in 1..Len(Categories)} \cap Nodes

InitialTrees ==
    {TreeOf(loc, {}) : loc \in LocalChoices}
    \cup {TreeOf([e \in Entries |-> "absent"], {b}) : b \in CategoryDirs}

(***************************************************************************)
(* The pure decisions of the downloader.                                   *)
(***************************************************************************)
\* _check_existing_file with the comparison of the CRC-32 inverted
_check_existing_file_inverted(tree, p, c) ==
    IF ~Exists(tree, p) THEN "miss"
    ELSE IF tree[p].kind = "dir" THEN "raise"
    ELSE IF _calculate_crc32(tree[p].data) = c THEN "miss"
    ELSE "skip"

\* _check_existing_file without the comparison of the CRC-32
_check_existing_file_nocrc(tree, p, c) ==
    IF ~Exists(tree, p) THEN "miss"
    ELSE IF tree[p].kind = "dir" THEN "raise"
    ELSE "skip"

\* the outcome of _check_existing_file: "skip" (return True), "miss" (return
\* False) or "raise" (open() of a directory raises IsADirectoryError)
_check_existing_file(tree, p, c) ==
    IF ~Exists(tree, p) THEN "miss"
    ELSE IF tree[p].kind = "dir" THEN "raise"
    ELSE IF _calculate_crc32(tree[p].data) # c THEN "miss"
    ELSE "skip"

\* file_path.parent.mkdir(parents=True, exist_ok=True): FALSE when it raises
\* because an ancestor is a regular file
MkdirOk(tree, p) == \A a \in Ancestors(p) : tree[a].kind # "file"

Mkdir(tree, p) == [q \in Nodes |-> IF q \in Ancestors(p) THEN Dir ELSE tree[q]]

\* int(response.headers.get('Content-Length', 0)) with the header absent
NoContentLength == 0

\* a body that is not longer than the size passes
SizeMatches_atmost(n, size) == n <= size

\* if bytes_downloaded == size
SizeMatches(n, size) == n = size

\* for attempt in range(retries): another attempt follows attempt a
LoopGoesOn_plus1(a) == a + 1 < Retries + 1

LoopGoesOn(a) == a + 1 < Retries

\* if attempt < retries - 1
SleepsAfter(a) == a < Retries - 1

\* a sleep of twice the attempt's number of seconds, from 2 on
Backoff_from2(a) == 2 * (a + 1)

\* asyncio.sleep(2**attempt)
Backoff(a) == 2 ^ a

\* the open in mode 'ab': what the file held stays
OpenAb(node) == IF node.kind = "file" THEN node ELSE RegularFile(<<>>)

\* aiofiles.open(fp, 'wb'): the file as the open leaves it
OpenWb(node) == RegularFile(<<>>)

\* f.write(chunk)
Write(node, b) == RegularFile(Append(node.data, b))

\* _verify_download that only looks whether the file is there
_verify_download_exists(tree, p, c) == tree[p].kind = "file"

\* what _verify_download finds: TRUE when the CRC-32 of the file is the declared one
_verify_download(tree, p, c) == _calculate_crc32(tree[p].data) = c

\* file_path.unlink(missing_ok=True)
Unlink(tree, p) == [tree EXCEPT ![p] = Absent]

\* range(10) taken one too far
ProbeAgain_11(k) == k < ProbeTries

\* get_file_size: the probe is sent again after a TimeoutError while i + 1 < 10
ProbeAgain(k) == k + 1 < ProbeTries

\* the Content-Length values the server answers a HEAD of the entry with
ContentLengths(e) == {Len(Body(e))}

\* the command lines the runs are started with: the download command with its
\* category options (arguments() rejects --all together with another category
\* option), and the search command, which has none
Arguments ==
    { [commands |-> "download", all |-> FALSE, androidassets |-> TRUE, iosassets |-> TRUE,
       tables |-> TRUE, media |-> TRUE],
      [commands |-> "download", all |-> FALSE, androidassets |-> FALSE, iosassets |-> TRUE,
       tables |-> FALSE, media |-> TRUE],
      [commands |-> "download", all |-> FALSE, androidassets |-> FALSE, iosassets |-> FALSE,
       tables |-> FALSE, media |-> FALSE],
      [commands |-> "download", all |-> TRUE, androidassets |-> FALSE, iosassets |-> FALSE,
       tables |-> FALSE, media |-> FALSE],
      [commands |-> "search", all |-> FALSE, androidassets |-> FALSE, iosassets |-> FALSE,
       tables |-> FALSE, media |-> FALSE] }

\* resource_downloader: the flags download() is called with; --all sets
\* args.assets, args.tables and args.media
resource_downloader(a) ==
    [androidassets |-> a.androidassets,
     iosassets |-> a.iosassets,
     tables |-> a.all \/ a.tables,
     media |-> a.all \/ a.media]

\* the flag sets the runs are started with
Selections == {resource_downloader(a) : a \in Arguments}

\* a category list that ignores the flags
CategoryList_all(f) == Categories

\* the list download() builds from its flags
CategoryList(f) ==
    (IF f.androidassets THEN <<"AndroidAssetBundles">> ELSE << >>)
    \o (IF f.iosassets THEN <<"iOSAssetBundles">> ELSE << >>)
    \o (IF f.tables THEN <<"TableBundles">> ELSE << >>)
    \o (IF f.media THEN <<"MediaResources">> ELSE << >>)

Range(q) == {q[k] : k \in 1..Len(q)}

\* the limits the runs are started with: an integer >= 1, or None (unlimited)
Limits == {MaxLimit, None}

(***************************************************************************)
(* Resolution of the manifest root (CatalogParser.fetch_catalog_url).  A   *)
(* string is the sequence of its characters; the empty string stands for   *)
(* an override that was not supplied (catalog_url or None).                *)
(***************************************************************************)
\* str.startswith
StartsWith(s, p) == Len(s) >= Len(p) /\ SubSeq(s, 1, Len(p)) = p

\* sub in s, for a sub of one character
Contains(s, ch) == \E k \in 1..Len(s) : s[k] = ch

\* 'http://'
HttpScheme ==
    <<"h", "t", "t", "p", ":", "/", "/">>

\* 'https://'
HttpsScheme ==
    <<"h", "t", "t", "p", "s", ":", "/", "/">>

\* 'https://prod-clientpatch.bluearchiveyostar.com/'
PatchRoot ==
    <<"h", "t", "t", "p", "s", ":", "/", "/", "p", "r", "o", "d", "-", "c",
      "l", "i", "e", "n", "t", "p", "a", "t", "c", "h", ".", "b", "l", "u",
      "e", "a", "r", "c", "h", "i", "v", "e", "y", "o", "s", "t", "a", "r",
      ".", "c", "o", "m", "/">>

\* the AddressablesCatalogUrlRoot the server API answers with when no override is
\* supplied
ServerRoot ==
    <<"h", "t", "t", "p", "s", ":", "/", "/", "s", "r", "v">>

\* the rules tried in another order: the '_' rule before the full-URL rule
fetch_catalog_url_underscore_first(u, served) ==
    IF u = << >> THEN served
    ELSE IF Contains(u, "_") THEN PatchRoot \o u
    ELSE IF StartsWith(u, HttpScheme) \/ StartsWith(u, HttpsScheme) THEN u
    ELSE HttpsScheme \o u

\* the rules without the '_' rule
fetch_catalog_url_bare_host(u, served) ==
    IF u = << >> THEN served
    ELSE IF StartsWith(u, HttpScheme) \/ StartsWith(u, HttpsScheme) THEN u
    ELSE HttpsScheme \o u

\* CatalogParser.fetch_catalog_url: u is self.catalog_url, served is what the
\* server API gives when there is no override
fetch_catalog_url(u, served) ==
    IF u = << >> THEN served
    ELSE IF StartsWith(u, HttpScheme) \/ StartsWith(u, HttpsScheme) THEN u
    ELSE IF Contains(u, "_") THEN PatchRoot \o u
    ELSE HttpsScheme \o u

\* how the overrides tried begin ...
OverrideHeads ==
    { << >>,
      <<"h">>,
      <<"h", "t", "t", "p">>,
      <<"h", "t", "t", "p", ":", "/">>,
      <<"h", "t", "t", "p", ":", "/", "/">>,
      <<"h", "t", "t", "p", "s">>,
      <<"h", "t", "t", "p", "s", ":", "/">>,
      <<"h", "t", "t", "p", "s", ":", "/", "/">>,
      <<"f", "t", "p", ":", "/", "/">> }

\* ... and how they go on
OverrideTails ==
    { << >>,
      <<"a">>,
      <<"_">>,
      <<"a", "_", "b">>,
      <<"a", ".", "b", "/", "c">>,
      <<"r", "1", "_", "x">>,
      <<"h", "t", "t", "p", ":", "/", "/", "a">> }

\* the values of --catalog that supply an override ("" and None supply none)
Overrides == {h \o t : h \in OverrideHeads, t \in OverrideTails} \ {<< >>}

(***************************************************************************)
(* The bootstrap search (CatalogFetcher.find_game_config).  A searched     *)
(* directory is [exists, files]: whether the path exists and the regular   *)
(* files path.rglob('*') yields, in the order it yields them; a file is    *)
(* the sequence of its bytes.  A search result is [found, data]: found is  *)
(* FALSE for None.                                                         *)
(***************************************************************************)
\* the signature: b'GameMainConfig' 00 00 92 03 00 00
pattern ==
    <<71, 97, 109, 101, 77, 97, 105, 110, 67, 111, 110, 102, 105, 103, 0, 0, 146, 3, 0,
      0>>

\* pat occurs in content at position k
Occurs(content, pat, k) ==
    /\ k + Len(pat) - 1 <= Len(content)
    /\ SubSeq(content, k, k + Len(pat) - 1) = pat

\* pattern in content
HasPattern(content, pat) == \E k \in 1..Len(content) : Occurs(content, pat, k)

\* content.index(pattern), counted from 1
Index(content, pat) ==
    CHOOSE k \in 1..Len(content) :
        Occurs(content, pat, k) /\ \A j \in 1..(k - 1) : ~Occurs(content, pat, j)

\* data[:-2]
TrimTwo(data) == IF Len(data) <= 2 THEN << >> ELSE SubSeq(data, 1, Len(data) - 2)

NotFound == [found |-> FALSE, data |-> << >>]

\* what _search_for_pattern returns for a file that holds the pattern
Payload(content, pat) ==
    [found |-> TRUE,
     data |-> TrimTwo(SubSeq(content, Index(content, pat) + Len(pat), Len(content)))]

\* the loop of _search_for_pattern over the files of a directory
RECURSIVE SearchFiles(_, _)
SearchFiles(files, pat) ==
    IF files = << >> THEN NotFound
    ELSE IF HasPattern(Head(files), pat) THEN Payload(Head(files), pat)
    ELSE SearchFiles(Tail(files), pat)

_search_for_pattern(path, pat) ==
    IF ~path.exists THEN NotFound ELSE SearchFiles(path.files, pat)

\* the number of files _search_for_pattern reads in a directory
RECURSIVE FilesRead(_, _)
FilesRead(files, pat) ==
    IF files = << >> THEN 0
    ELSE IF HasPattern(Head(files), pat) THEN 1
    ELSE 1 + FilesRead(Tail(files), pat)

\* if result: None and b'' are both false
Truthy(r) == r.found /\ r.data # << >>

\* the loop of find_game_config over search_paths; tree gives the directory at
\* each path
RECURSIVE SearchRoots(_, _)
SearchRoots(paths, tree) ==
    IF paths = << >> THEN NotFound
    ELSE LET result == _search_for_pattern(tree[Head(paths)], pattern)
         IN IF Truthy(result) THEN result ELSE SearchRoots(Tail(paths), tree)

\* the files read in each directory the loop of find_game_config visits
RECURSIVE ReadInRoots(_, _)
ReadInRoots(paths, tree) ==
    IF paths = << >> THEN << >>
    ELSE LET path == tree[Head(paths)]
             n == IF path.exists THEN FilesRead(path.files, pattern) ELSE 0
         IN IF Truthy(_search_for_pattern(path, pattern)) THEN <<n>>
            ELSE <<n>> \o ReadInRoots(Tail(paths), tree)

\* the directories: the cache of version v1, the bundled default, the cache of
\* another version
RootNames == {"v1", "default", "v2"}

\* _get_cache_paths: the version directories that exist and are not yet in the
\* list, in one of the orders iterdir can give them
CachePaths(tree, existing) ==
    LET more == {n \in {"v1", "v2"} : tree[n].exists /\ n \notin Range(existing)}
    IN {q \in UNION {[1..k -> more] : k \in 0..Cardinality(more)} :
          Len(q) = Cardinality(more) /\ Range(q) = more}

\* search_paths of find_game_config(version); version is "v1" or "" (None)
SearchPaths(version, tree) ==
    LET first == (IF version # "" THEN <<version>> ELSE << >>) \o <<"default">>
    IN {first \o q : q \in CachePaths(tree, first)}

\* the bytes a file of one kind holds in directory number r: without the
\* signature, with the signature and 2 more bytes, with the signature and a
\* payload, with the signature twice
FileOfKind(kind, r) ==
    CASE kind = "none" -> <<r>>
      [] kind = "empty" -> pattern \o <<r, r>>
      [] kind = "good" -> <<r>> \o pattern \o <<r, 0, 0>>
      [] kind = "twice" -> pattern \o <<r>> \o pattern \o <<r, 0, 0>>

\* the states a directory is searched in
RootStates(r) ==
    {[exists |-> FALSE, files |-> << >>]}
    \cup {[exists |-> TRUE, files |-> [k \in 1..Len(q) |-> FileOfKind(q[k], r)]] :
            q \in UNION {[1..n -> {"none", "empty", "good"}] : n \in 0..MaxFiles}}
    \cup {[exists |-> TRUE, files |-> <<FileOfKind("twice", r)>>]}

RootNumber(n) == CASE n = "v1" -> 1 [] n = "default" -> 2 [] n = "v2" -> 3

(***************************************************************************)
(* get_game_files: the four cached manifests are flattened into one index. *)
(* A string is the sequence of its parts; "/" and "\\" are parts of their  *)
(* own, and the last part of a name is its base name.                      *)
(***************************************************************************)
\* asset.get(key, default) with None in place of the default
Get_none(asset, key, default) == IF key \in DOMAIN asset THEN asset[key] ELSE None

\* asset.get(key, default)
Get(asset, key, default) == IF key \in DOMAIN asset THEN asset[key] ELSE default

\* s.replace("\\", "/")
Replace(s) == [k \in 1..Len(s) |-> IF s[k] = "\\" THEN "/" ELSE s[k]]

\* docs.table and docs.media hold the items() of the dictionaries, in order
get_game_files(root, docs) ==
    [AndroidAssetBundles |->
        [k \in 1..Len(docs.android) |->
            [url |-> root \o <<"/", "Android", "/">> \o docs.android[k].Name,
             crc |-> Get(docs.android[k], "Crc", 0),
             size |-> Get(docs.android[k], "Size", 0)]],
     iOSAssetBundles |->
        [k \in 1..Len(docs.ios) |->
            [url |-> root \o <<"/", "iOS", "/">> \o docs.ios[k].Name,
             crc |-> Get(docs.ios[k], "Crc", 0),
             size |-> Get(docs.ios[k], "Size", 0)]],
     TableBundles |->
        [k \in 1..Len(docs.table) |->
            [url |-> root \o <<"/", "TableBundles", "/">> \o docs.table[k].key,
             crc |-> Get(docs.table[k].asset, "crc", 0),
             size |-> Get(docs.table[k].asset, "size", 0)]],
     MediaResources |->
        [k \in 1..Len(docs.media) |->
            [url |-> Replace(root \o <<"/", "MediaResources", "/">>
                             \o docs.media[k].value.path),
             path |-> Replace(docs.media[k].value.path),
             crc |-> Get(docs.media[k].value, "crc", 0),
             bytes |-> Get(docs.media[k].value, "bytes", 0)]]]

\* the sequences over S of length up to n
SeqsOf(S, n) == UNION {[1..k -> S] : k \in 0..n}

\* the entries the manifests tried are made of: names in sub-directories, entries
\* without Crc or Size, media paths written with "\\" and with "/"
AndroidAssets ==
    {[Name |-> <<"x", "/", "a">>, Crc |-> 7, Size |-> 2],
     [Name |-> <<"y", "/", "a">>, Crc |-> 8, Size |-> 1],
     [Name |-> <<"a">>],
     [Name |-> <<"b">>, Crc |-> 9]}

iOSAssets == {[Name |-> <<"a">>, Crc |-> 7, Size |-> 2]}

TableItems ==
    {[key |-> <<"t">>, asset |-> [crc |-> 5, size |-> 3]],
     [key |-> <<"t">>, asset |-> [name |-> <<"t">>]]}

MediaItems ==
    {[key |-> <<"k">>, value |-> [path |-> <<"d", "\\", "m">>, crc |-> 4, bytes |-> 1]],
     [key |-> <<"j">>, value |-> [path |-> <<"d", "/", "m">>, crc |-> 4, bytes |-> 1]],
     [key |-> <<"i">>, value |-> [path |-> <<"m">>]]}

ManifestChoices ==
    [android : SeqsOf(AndroidAssets, MaxEntries),
     ios : SeqsOf(iOSAssets, 1),
     table : SeqsOf(TableItems, 1),
     media : SeqsOf(MediaItems, MaxEntries)]

\* the manifests behind the index of the run
RunManifests ==
    [android |-> <<[Name |-> <<"a">>, Crc |-> crc32(Bodies.a), Size |-> 2],
                   [Name |-> <<"b">>, Crc |-> crc32(Bodies.b)]>>,
     ios |-> << >>,
     table |-> << >>,
     media |-> <<[key |-> <<"k">>,
                  value |-> [path |-> <<"d", "\\", "m">>, crc |-> crc32(Bodies.m),
                             bytes |-> 1]]>>]

\* the same manifests with the media path written with "/"
SlashManifests ==
    [RunManifests EXCEPT !.media = <<[key |-> <<"k">>,
                                      value |-> [path |-> <<"d", "/", "m">>,
                                                 crc |-> crc32(Bodies.m),
                                                 bytes |-> 1]]>>]

\* the manifests a command reads: the browser of the search command loads them
\* itself, the download command goes by the index alone
LoadedManifests(a) ==
    IF a.commands = "search" THEN {RunManifests, SlashManifests} ELSE {RunManifests}

\* Path(s).name: the last component, the "/" and the "." components the
\* path ends with left aside
_get_name_from_url(s) ==
    LET RECURSIVE Stem(_)
        Stem(u) ==
            IF u = << >> THEN u
            ELSE IF u[Len(u)] = "/" THEN Stem(SubSeq(u, 1, Len(u) - 1))
            ELSE IF u[Len(u)] = "." /\ (Len(u) = 1 \/ u[Len(u) - 1] = "/")
            THEN Stem(SubSeq(u, 1, Len(u) - 1))
            ELSE u
        t == Stem(s)
        cuts == {k \in 1..Len(t) : t[k] = "/"}
        last == IF cuts = {} THEN 0 ELSE CHOOSE k \in cuts : \A j \in cuts : j <= k
    IN SubSeq(t, last + 1, Len(t))

\* the rows of the browser, as <<category, name>>: _load_asset_bundles,
\* _load_media_resources and _load_table_bundles over the cached manifests
BrowserRows(docs) ==
    {<<"AndroidAssetBundles", docs.android[k].Name>> : k \in 1..Len(docs.android)}
    \cup {<<"iOSAssetBundles", docs.ios[k].Name>> : k \in 1..Len(docs.ios)}
    \cup {<<"MediaResources", _get_name_from_url(docs.media[k].value.path)>> :
             k \in 1..Len(docs.media)}
    \cup {<<"TableBundles", docs.table[k].key>> : k \in 1..Len(docs.table)}

\* output / category / _get_file_path(file), below the output directory
OutputPath(category, file) == <<category>> \o _get_file_path(file)

(***************************************************************************)
(* Key derivation.  calculate_hash and MersenneTwister are not part of the *)
(* sources at hand; they follow the design document: a 32-bit hash with a  *)
(* fixed secret over the bytes of the name, and a generator of the         *)
(* Mersenne-Twister family (xor and shift recurrences over a window of     *)
(* words, here of three words) whose 32-bit words are serialized           *)
(* little-endian and cut to the length asked for.                          *)
(***************************************************************************)
\* 32-bit addition
AddW(x, y) ==
    <<(x[1] + y[1] + ((x[2] + y[2]) \div 65536)) % 65536, (x[2] + y[2]) % 65536>>

\* the letters names are made of and their codes
Letters == {"a", "b", "A", "B"}

Code(ch) == CASE ch = "a" -> 97 [] ch = "b" -> 98 [] ch = "A" -> 65 [] ch = "B" -> 66

\* str.lower taken as the identity
lower_identity(s) == s

\* str.lower
lower(s) ==
    [k \in 1..Len(s) |-> CASE s[k] = "A" -> "a" [] s[k] = "B" -> "b"
                            [] s[k] = "P" -> "p" [] s[k] = "K" -> "k" [] OTHER -> s[k]]

\* the secret the hash starts from
HashSecret == <<9029, 31415>>

\* calculate_hash(name)
RECURSIVE calculate_hash(_)
calculate_hash(s) ==
    IF s = << >> THEN HashSecret
    ELSE LET h == calculate_hash(SubSeq(s, 1, Len(s) - 1))
         IN AddW(XorW(ShrW(h), <<Code(s[Len(s)]), 257 * Code(s[Len(s)])>>), h)

\* no generator exists
NoTwister == << >>

\* a new generator: the window of words is filled from the seed
MersenneTwister(seed) ==
    LET w2 == AddW(XorW(seed, ShrW(seed)), <<0, 1>>)
        w3 == AddW(XorW(w2, ShrW(w2)), <<0, 2>>)
    IN <<seed, w2, w3>>

\* the word the generator gives next, tempered
NextWord(t) == LET y == XorW(t[1], ShrW(t[3])) IN XorW(y, ShrW(ShrW(y)))

\* the generator after it has given a word
Twist(t) == <<t[2], t[3], XorW(t[1], ShrW(XorW(t[2], t[3])))>>

\* a 32-bit word, little-endian
LittleEndian(w) == <<w[2] % 256, w[2] \div 256, w[1] % 256, w[1] \div 256>>

\* the bytes of the next m words
RECURSIVE WordsBytes(_, _)
WordsBytes(t, m) ==
    IF m = 0 THEN << >> ELSE LittleEndian(NextWord(t)) \o WordsBytes(Twist(t), m - 1)

\* the generator after m words
RECURSIVE After(_, _)
After(t, m) == IF m = 0 THEN t ELSE After(Twist(t), m - 1)

\* twister.next_bytes(n): whole words are drawn, the buffer is cut to n bytes
next_bytes(t, n) ==
    [bytes |-> SubSeq(WordsBytes(t, (n + 3) \div 4), 1, n),
     twister |-> After(t, (n + 3) \div 4)]

\* b64encode, as the sequence of the 6-bit digits; 64 stands for the padding
RECURSIVE b64encode(_)
b64encode(d) ==
    IF d = << >> THEN << >>
    ELSE LET b1 == d[1]
             b2 == IF Len(d) >= 2 THEN d[2] ELSE 0
             b3 == IF Len(d) >= 3 THEN d[3] ELSE 0
         IN << b1 \div 4,
               (b1 % 4) * 16 + b2 \div 16,
               IF Len(d) >= 2 THEN (b2 % 16) * 4 + b3 \div 64 ELSE 64,
               IF Len(d) >= 3 THEN b3 % 64 ELSE 64 >>
            \o b64encode(SubSeq(d, 4, Len(d)))

\* twister = MersenneTwister(hash_value) with a generator kept from the call
\* before
NewTwister_kept(prev, seed) == IF prev = NoTwister THEN MersenneTwister(seed) ELSE prev

\* twister = MersenneTwister(hash_value): every derivation has its own generator
NewTwister(prev, seed) == MersenneTwister(seed)

\* the number of bytes a password is made from
PasswordBytes == 15

\* TableZipFile._generate_password, with the generator it leaves behind
_generate_password(prev, file_name) ==
    LET drawn == next_bytes(NewTwister(prev, calculate_hash(file_name)), PasswordBytes)
    IN [password |-> b64encode(drawn.bytes), twister |-> drawn.twister]

\* the archives opened: a path is the sequence of its components, a name the
\* sequence of its letters
ArchiveNames == {<<"a">>, <<"A">>, <<"b">>, <<"a", "B">>, <<"A", "b">>}

ArchiveFiles ==
    {<<n>> : n \in ArchiveNames} \cup {<<<<"b">>, n>> : n \in ArchiveNames}

\* the passwords supplied by a caller; b'' is one of them
ExplicitPasswords == {<< >>, <<1>>}

(***************************************************************************)
(* The string cipher of the bootstrap configuration.  TableEncryptionService *)
(* is not part of the sources at hand; it follows the design document: a   *)
(* stream XOR against the key, the key cut or repeated to the length of    *)
(* the input, with base64 as the outer form of the ciphertext.             *)
(***************************************************************************)
\* the inverse of b64encode
RECURSIVE b64decode(_)
b64decode(c) ==
    IF Len(c) < 4 THEN << >>
    ELSE LET n == IF c[3] = 64 THEN 1 ELSE IF c[4] = 64 THEN 2 ELSE 3
             s3 == IF c[3] = 64 THEN 0 ELSE c[3]
             s4 == IF c[4] = 64 THEN 0 ELSE c[4]
         IN SubSeq(<< c[1] * 4 + c[2] \div 16,
                      (c[2] % 16) * 16 + s3 \div 4,
                      (s3 % 4) * 64 + s4 >>, 1, n)
            \o b64decode(SubSeq(c, 5, Len(c)))

\* the key fitted to n bytes: cut when longer, repeated when shorter
Fit(key, n) == [k \in 1..n |-> key[((k - 1) % Len(key)) + 1]]

\* the stream operation with addition in place of XOR
xor_added(value, key) ==
    [k \in 1..Len(value) |-> (value[k] + Fit(key, Len(value))[k]) % 256]

\* the stream XOR of value against the fitted key
xor(value, key) ==
    [k \in 1..Len(value) |-> Xor16(value[k], Fit(key, Len(value))[k])]

\* new_encrypt_string(value, key)
new_encrypt_string(value, key) == b64encode(xor(value, key))

\* convert_string(value, key)
convert_string(value, key) == xor(b64decode(value), key)

\* the keys and the plaintexts tried
CipherKeys == {<<5>>, <<5, 250>>, <<1, 2, 3, 4>>}

PlainTexts == UNION {[1..k -> {0, 65, 255}] : k \in 0..(MaxLen + 1)}

\* nothing has been encrypted
NoCipher == [stage |-> "none", plain |-> << >>, key |-> << >>, text |-> << >>,
             back |-> << >>]

(***************************************************************************)
(* State.                                                                  *)
(***************************************************************************)
VARIABLES
    args,             \* the parsed command line: the command and the category
                      \* options of the download command
    limit,            \* download(limit=...)
    flags,            \* download(androidassets, iosassets, tables, media)
    categories,       \* the list download() builds
    semaphore,        \* self.semaphore: [created, permits, unbounded]
    fs0,              \* the local tree when the run starts
    fs,               \* the local tree
    run,              \* "new", "loop", "gather", "failing", "done", "aborted"
    cat,              \* position of _download_all_categories in game_files
    pc,               \* per entry: where its _download_file task is ("pending",
                      \* "head", "get", "stream", "write", "sleep", "returned",
                      \* "raised", "cancelled")
    i,                \* per entry: the loop variable of get_file_size (0 outside it)
    total_size,       \* per entry: what get_file_size returned (None outside
                      \* _download_file)
    attempt,          \* per entry: the loop variable of _download_file_content (0
                      \* outside it)
    delay,            \* per entry: the seconds of the asyncio.sleep it is in (0
                      \* outside it)
    bytes_downloaded, \* per entry: the counter of _attempt_download (0 outside it)
    outcome,          \* per entry: "NONE", "SKIPPED", "SUCCEEDED", "FAILED"
    log,              \* per entry: the last console message about its outcome
    catalog_url,      \* CatalogParser.catalog_url: the override (empty: none)
    resolved,         \* what fetch_catalog_url returned (empty: not called yet)
    version,          \* find_game_config(version): "v1", or "" for None
    roots,            \* the directories the bootstrap search can look into
    search_paths,     \* search_paths of find_game_config
    game_config,      \* what find_game_config returned and what it read
    stage,            \* where the acquisition pass stands
    cache,            \* the manifest files of the cache directory: "absent",
                      \* "old" (of an earlier pass or run), "ok" and "nokey"
                      \* (written in this pass, with and without its entries)
    effects,          \* the outside steps of the acquisition pass, in order
    payload_kind,     \* what the payload of the bootstrap blob decrypts to
    phase,            \* whose acquisition pass is under way or was the last:
                      \* "initialize" (download()), "catalogs" and "prepare"
                      \* (CatalogList.__init__), "enter" (Enter in the browser)
    manifests,        \* the four documents of the cache get_game_files loads
    index,            \* what get_game_files returned
    twister,          \* the generator the last derivation drew from
    opened,           \* the containers opened, in order
    derived,          \* the key streams derived, in order
    cipher,           \* the string last encrypted and what became of it
    command,          \* the options of the extract command line
    archives,         \* the *.zip files of the media directory, as glob lists them
    xpc,              \* where the extract command stands
    ran,              \* the extracters the command has run, in order
    passes,           \* per archive: its extract_media task
    apk_version,      \* ApkParser.version, as its dot-separated components
    probes,           \* the URLs _check_url_validity was called with, and the answers
    apk_url,          \* ApkParser.apk_url (NoUrl: not set yet)
    package,          \* the file extract_apk is given and where it sent it
    disk,             \* the package file at apk_path and the folders apk/ and data/
    remote,           \* the package the server holds
    dl,               \* where download_apk stands
    stored,           \* the index saved as GameFiles.json
    filter_pattern,   \* ResourceDownloader.filter_pattern
    filtered          \* what filter_files and initialize_download returned

\* the variables of a download run
run_vars == <<args, limit, flags, categories, semaphore, fs0, fs, run, cat, pc, i,
              total_size, attempt, delay, bytes_downloaded, outcome, log>>

\* the variables of the resolution of the manifest root
url_vars == <<catalog_url, resolved>>

\* the variables of the bootstrap search
search_vars == <<version, roots, search_paths, game_config>>

\* the variables of the acquisition (initialize_download)
acquire_vars == <<stage, cache, effects, payload_kind, phase>>

\* the variables of the indexing (get_game_files)
index_vars == <<manifests, index>>

\* the variables of the key derivation
key_vars == <<twister, opened, derived, cipher>>

\* the variables of the commands besides download
\* the variables of the extract command
extract_vars == <<command, archives, xpc, ran, passes>>

\* the variables of the package acquisition
apk_vars == <<apk_version, probes, apk_url, package>>

\* the variables of download_apk
pkg_vars == <<disk, remote, dl>>

\* the variables of the filter
filter_vars == <<stored, filter_pattern, filtered>>

late_vars == <<pkg_vars, filter_vars>>

more_vars == <<key_vars, extract_vars, apk_vars, late_vars>>

\* the variables of the download command
download_vars == <<run_vars, url_vars, search_vars, acquire_vars, index_vars>>

vars == <<run_vars, url_vars, search_vars, acquire_vars, index_vars, more_vars>>

\* what a download run reads and never changes
inputs == <<args, limit, flags, fs0, url_vars, search_vars, acquire_vars, index_vars, more_vars>>

InCategory(c) == {e \in Entries : e[1] = c}

\* the entries with a network operation in flight: a HEAD, or a GET whose
\* response or body is awaited
InFlight == {e \in Entries : pc[e] \in {"head", "get", "stream", "write"}}

Terminal == {"SKIPPED", "SUCCEEDED", "FAILED"}

\* every task of the gathered category has run up to its first suspension
AllStarted == \A e \in InCategory(cat) : pc[e] # "pending"

\* a task of the gathered category that the event loop can resume
Running(e) ==
    /\ run \in {"gather", "failing"}
    /\ e[1] = cat
    /\ AllStarted

\* the runs tried: the download over the Android bundles with the finite
\* limit, the other downloads with and without a limit, the browser (which
\* makes no semaphore) without one
InitRun ==
    /\ args \in Arguments
    /\ limit \in (IF args.commands # "download" THEN {None}
                   ELSE IF args.androidassets THEN {MaxLimit}
                   ELSE Limits)
    /\ flags = resource_downloader(args)
    /\ fs0 \in InitialTrees
    /\ fs = fs0
    /\ categories = << >>
    /\ semaphore = [created |-> FALSE, permits |-> 0, unbounded |-> FALSE]
    /\ run = "new"
    /\ cat = 1
    /\ pc = [e \in Entries |-> "pending"]
    /\ i = [e \in Entries |-> 0]
    /\ total_size = [e \in Entries |-> None]
    /\ attempt = [e \in Entries |-> 0]
    /\ delay = [e \in Entries |-> 0]
    /\ bytes_downloaded = [e \in Entries |-> 0]
    /\ outcome = [e \in Entries |-> "NONE"]
    /\ log = [e \in Entries |-> "none"]

\* a run that was started with the override "srv", resolved to ServerRoot
UrlDone == catalog_url = <<"s", "r", "v">> /\ resolved = ServerRoot

\* find_game_config has not been called (an override was supplied)
SearchIdle ==
    /\ version = ""
    /\ roots = [n \in RootNames |-> [exists |-> FALSE, files |-> << >>]]
    /\ search_paths = << >>
    /\ game_config = [done |-> FALSE, result |-> NotFound, read |-> << >>]

\* one outside step of the acquisition and how it went
Effect(s, o) == [step |-> s, outcome |-> o]

ManifestNames == {"android", "ios", "table", "media"}

\* initialize_download has returned: the run was started with an override and
\* without a version, every fetch went well
AcquireDone ==
    /\ stage = "ready"
    /\ cache = [m \in ManifestNames |-> "ok"]
    /\ effects = <<Effect("android", "ok"), Effect("ios", "ok"), Effect("table", "ok"),
                   Effect("media1", "ok"), Effect("fetch_version", "ok"),
                   Effect("save_json", "ok")>>
    /\ payload_kind = "ok"
    /\ phase = "initialize"

\* initialize_download has not been called
AcquireIdle ==
    /\ stage = "start"
    /\ cache = [m \in ManifestNames |-> "absent"]
    /\ effects = << >>
    /\ payload_kind = "ok"
    /\ phase = "initialize"

\* get_game_files has not been called
IndexIdle ==
    /\ manifests = [android |-> << >>, ios |-> << >>, table |-> << >>, media |-> << >>]
    /\ index = [built |-> FALSE, files |-> get_game_files(ServerRoot, manifests)]

\* get_game_files has indexed the manifests of the run
IndexDone ==
    /\ manifests \in LoadedManifests(args)
    /\ index = [built |-> TRUE, files |-> get_game_files(ServerRoot, manifests)]

\* no container has been opened and no key stream derived
KeyIdle ==
    /\ twister = NoTwister
    /\ opened = << >>
    /\ derived = << >>
    /\ cipher = NoCipher

\* the extract command is not running
NoCommand == [all |-> FALSE, tables |-> FALSE, assets |-> FALSE, media |-> FALSE,
              studio |-> FALSE]

ExtractIdle ==
    /\ command = NoCommand
    /\ archives = << >>
    /\ xpc = "idle"
    /\ ran = << >>
    /\ passes = << >>

\* no package is being acquired
Url(kind, param, value) == [kind |-> kind, param |-> param, value |-> value]

NoUrl == Url("", "", << >>)

NoPackage ==
    [stage |-> "none", readable |-> FALSE, names |-> {}, suffix |-> << >>,
     regular |-> FALSE, route |-> ""]

ApkIdle ==
    /\ apk_version = <<"">>
    /\ probes = << >>
    /\ apk_url = NoUrl
    /\ package = NoPackage

\* extensions of the package file
XapkSuffix == <<".", "x", "a", "p", "k">>

\* no file at apk_path
AbsentPackage ==
    [exists |-> FALSE, readable |-> FALSE, names |-> {}, suffix |-> XapkSuffix,
     size |-> 0]

\* a folder that does not exist
NoFolder == [exists |-> FALSE, files |-> {}]

\* download_apk has not been called
PkgIdle ==
    /\ disk = [package |-> AbsentPackage, apk |-> NoFolder, data |-> NoFolder]
    /\ remote = AbsentPackage
    /\ dl = [pc |-> "idle", update |-> FALSE, after |-> "", warnings |-> {},
             status |-> 0, failed |-> ""]

\* an index without entries
NoIndex ==
    [AndroidAssetBundles |-> << >>, iOSAssetBundles |-> << >>, TableBundles |-> << >>,
     MediaResources |-> << >>]

\* no filter is applied
FilterIdle ==
    /\ stored = NoIndex
    /\ filter_pattern = << >>
    /\ filtered = [stage |-> "idle", result |-> NoIndex, returned |-> << >>]

LateIdle == PkgIdle /\ FilterIdle

\* no other command is running
MoreIdle == KeyIdle /\ ExtractIdle /\ ApkIdle /\ LateIdle

\* the download command after initialize_download has returned
Init ==
    /\ InitRun
    /\ args.commands = "download"
    /\ UrlDone
    /\ SearchIdle
    /\ AcquireDone
    /\ IndexDone
    /\ MoreIdle

(***************************************************************************)
(* download and _download_all_categories.                                  *)
(***************************************************************************)
\* download(): the category list and the semaphore are built, the loop starts
download ==
    /\ args.commands = "download"
    /\ stage = "ready"
    /\ run = "new"
    /\ categories' = CategoryList(flags)
    /\ semaphore' = [created |-> TRUE,
                     permits |-> IF limit = None THEN 0 ELSE limit,
                     unbounded |-> limit = None]
    /\ run' = "loop"
    /\ UNCHANGED <<inputs, fs, cat, pc, i, total_size, attempt, delay,
                   bytes_downloaded, outcome, log>>

\* CatalogList._download_selected_item (the search command, Enter on a row of
\* the browser) once its initialize_download, which _handle_input has begun,
\* has returned (a pass that fails ends the program in the stage "failed"):
\* the first file of the row's category that has the row's name is handed
\* alone to _download_all_categories; download() is not called and no
\* semaphore is made.  A row of a category that is not accepted, or a row
\* whose name no file of the index has, starts nothing and the browser goes
\* on; when a run has returned the browser goes on as well and Enter starts
\* another pass and another run, from the tree the last one left.  The row
\* under the cursor, which the pass neither reads nor changes, is drawn here,
\* where it is used.  The categories of the index that are accepted hold one
\* file at most, so the file handed over is the category's list.
_download_selected_item ==
    /\ args.commands = "search"
    /\ stage = "ready"
    /\ phase = "enter"
    /\ run \in {"new", "done"}
    /\ stage' = "browse"
    /\ \E row \in BrowserRows(manifests) :
          LET category == row[1]
              name == row[2]
              \* file.get('Name') or Path(file.get('path', '')).name
              \* or Path(file['url']).name
              file_name(file) ==
                  IF "Name" \in DOMAIN file THEN file.Name
                  ELSE IF "path" \in DOMAIN file /\ PathName(file.path) # <<"">>
                  THEN PathName(file.path)
                  ELSE PathName(file.url)
              same == {k \in 1..Len(game_files[category]) :
                          file_name(game_files[category][k]) = name}
          IN IF category \in {"AssetBundles", "MediaResources", "TableBundles"}
                /\ same # {}
             THEN /\ categories' = <<category>>
                  /\ cat' = CHOOSE c \in 1..Len(Categories) : Categories[c] = category
                  /\ run' = "loop"
                  /\ fs0' = fs
                  /\ pc' = [e \in Entries |-> "pending"]
                  /\ i' = [e \in Entries |-> 0]
                  /\ total_size' = [e \in Entries |-> None]
                  /\ attempt' = [e \in Entries |-> 0]
                  /\ delay' = [e \in Entries |-> 0]
                  /\ bytes_downloaded' = [e \in Entries |-> 0]
                  /\ outcome' = [e \in Entries |-> "NONE"]
                  /\ log' = [e \in Entries |-> "none"]
             ELSE UNCHANGED <<categories, cat, run, fs0, pc, i, total_size, attempt,
                              delay, bytes_downloaded, outcome, log>>
    /\ UNCHANGED <<args, limit, flags, semaphore, fs, url_vars, search_vars,
                   cache, effects, payload_kind, phase, index_vars, more_vars>>

\* for category, files in game_files.items(): a category that is not selected
SkipCategory ==
    /\ run = "loop"
    /\ cat <= Len(Categories)
    /\ Categories[cat] \notin Range(categories)
    /\ cat' = cat + 1
    /\ UNCHANGED <<inputs, categories, semaphore, fs, run, pc, i, total_size, attempt, delay,
                   bytes_downloaded, outcome, log>>

\* _download_category: the session is opened and the tasks are gathered
_download_category ==
    /\ run = "loop"
    /\ cat <= Len(Categories)
    /\ Categories[cat] \in Range(categories)
    /\ run' = "gather"
    /\ UNCHANGED <<inputs, categories, semaphore, fs, cat, pc, i, total_size, attempt, delay,
                   bytes_downloaded, outcome, log>>

\* gather returns as soon as every task has started
GatherReturns_started ==
    /\ run = "gather"
    /\ AllStarted
    /\ run' = "loop"
    /\ cat' = cat + 1
    /\ UNCHANGED <<inputs, categories, semaphore, fs, pc, i, total_size, attempt, delay,
                   bytes_downloaded, outcome, log>>

\* gather returns once every task has returned; the loop goes on
GatherReturns ==
    /\ run = "gather"
    /\ \A e \in InCategory(cat) : pc[e] = "returned"
    /\ run' = "loop"
    /\ cat' = cat + 1
    /\ UNCHANGED <<inputs, categories, semaphore, fs, pc, i, total_size, attempt, delay,
                   bytes_downloaded, outcome, log>>

\* a task has raised: gather re-raises, nothing catches it up to asyncio.run, which
\* cancels the tasks still running and ends the run with the exception
GatherRaises ==
    /\ run = "failing"
    /\ AllStarted
    /\ run' = "aborted"
    /\ pc' = [e \in Entries |->
                IF e[1] = cat /\ pc[e] \in {"head", "get", "stream", "write", "sleep"}
                THEN "cancelled" ELSE pc[e]]
    /\ UNCHANGED <<inputs, categories, semaphore, fs, cat, i, total_size, attempt, delay,
                   bytes_downloaded, outcome, log>>

\* the loop over game_files has ended
LoopEnds ==
    /\ run = "loop"
    /\ cat > Len(Categories)
    /\ run' = "done"
    /\ UNCHANGED <<inputs, categories, semaphore, fs, cat, pc, i, total_size, attempt, delay,
                   bytes_downloaded, outcome, log>>

(***************************************************************************)
(* _download_file: one task per entry.                                     *)
(***************************************************************************)
\* the task returns with an outcome
Return(e, o, msg) ==
    /\ pc' = [pc EXCEPT ![e] = "returned"]
    /\ outcome' = [outcome EXCEPT ![e] = o]
    /\ log' = [log EXCEPT ![e] = msg]
    /\ i' = [i EXCEPT ![e] = 0]
    /\ attempt' = [attempt EXCEPT ![e] = 0]
    /\ delay' = [delay EXCEPT ![e] = 0]
    /\ bytes_downloaded' = [bytes_downloaded EXCEPT ![e] = 0]
    /\ total_size' = [total_size EXCEPT ![e] = None]

\* an exception leaves the task: gather will raise it
Raise(e) ==
    /\ pc' = [pc EXCEPT ![e] = "raised"]
    /\ run' = "failing"
    /\ UNCHANGED <<outcome, log, i, attempt, delay, bytes_downloaded, total_size>>

\* the first step of the task, up to the first HEAD request: the check of the
\* existing file, the mkdir of the parent and the entry into get_file_size
_download_file(e) ==
    /\ run \in {"gather", "failing"}
    /\ e[1] = cat
    /\ pc[e] = "pending"
    /\ \A k \in 1..(e[2] - 1) : pc[<<cat, k>>] # "pending"
    /\ LET found == _check_existing_file(fs, file_path(e), crc(e)) IN
        CASE found = "skip" ->
                /\ Return(e, "SKIPPED", "skip")
                /\ UNCHANGED <<fs, run>>
          [] found = "raise" ->
                /\ Raise(e)
                /\ UNCHANGED fs
          [] found = "miss" /\ ~MkdirOk(fs, file_path(e)) ->
                /\ Raise(e)
                /\ UNCHANGED fs
          [] found = "miss" /\ MkdirOk(fs, file_path(e)) ->
                /\ fs' = Mkdir(fs, file_path(e))
                /\ pc' = [pc EXCEPT ![e] = "head"]
                /\ UNCHANGED <<run, outcome, log, i, attempt, delay, bytes_downloaded,
                               total_size>>
    /\ UNCHANGED <<inputs, categories, semaphore, cat>>

\* get_file_size returned an integer: _download_file_content starts and the first
\* GET is issued
SizeKnown(e, n) ==
    /\ total_size' = [total_size EXCEPT ![e] = n]
    /\ i' = [i EXCEPT ![e] = 0]
    /\ pc' = [pc EXCEPT ![e] = "get"]
    /\ attempt' = [attempt EXCEPT ![e] = 0]
    /\ UNCHANGED <<outcome, log, bytes_downloaded, delay>>

\* get_file_size returned None: the failure is logged and the task returns
SizeUnknown(e) ==
    Return(e, "FAILED", "size")

\* the HEAD response carries Content-Length: n
HeadContentLength(e, n) ==
    /\ Running(e)
    /\ pc[e] = "head"
    /\ SizeKnown(e, n)
    /\ UNCHANGED <<inputs, categories, semaphore, fs, run, cat>>

\* the HEAD response carries no Content-Length: headers.get(..., 0)
HeadNoContentLength(e) ==
    /\ Running(e)
    /\ pc[e] = "head"
    /\ SizeKnown(e, NoContentLength)
    /\ UNCHANGED <<inputs, categories, semaphore, fs, run, cat>>

\* the HEAD request raises ClientError, or int() raises ValueError on the header
HeadClientError(e) ==
    /\ Running(e)
    /\ pc[e] = "head"
    /\ SizeUnknown(e)
    /\ UNCHANGED <<inputs, categories, semaphore, fs, run, cat>>

\* the HEAD request raises TimeoutError: continue, and None once the loop is over
HeadTimeout(e) ==
    /\ Running(e)
    /\ pc[e] = "head"
    /\ IF ProbeAgain(i[e])
       THEN /\ i' = [i EXCEPT ![e] = i[e] + 1]
            /\ UNCHANGED <<pc, total_size, attempt, delay, outcome, log, bytes_downloaded>>
       ELSE SizeUnknown(e)
    /\ UNCHANGED <<inputs, categories, semaphore, fs, run, cat>>

\* the end of a failed attempt: the backoff sleep, or the end of the attempts
\* the next iteration of the loop of _download_file_content issues its GET; after
\* the last iteration the failure is logged and the task returns
NextAttempt(e) ==
    IF LoopGoesOn(attempt[e])
    THEN /\ attempt' = [attempt EXCEPT ![e] = attempt[e] + 1]
         /\ pc' = [pc EXCEPT ![e] = "get"]
         /\ bytes_downloaded' = [bytes_downloaded EXCEPT ![e] = 0]
         /\ delay' = [delay EXCEPT ![e] = 0]
         /\ UNCHANGED <<outcome, log, i, total_size>>
    ELSE Return(e, "FAILED", "exhausted")

AttemptFailed(e) ==
    IF SleepsAfter(attempt[e])
    THEN /\ pc' = [pc EXCEPT ![e] = "sleep"]
         /\ bytes_downloaded' = [bytes_downloaded EXCEPT ![e] = 0]
         /\ delay' = [delay EXCEPT ![e] = Backoff(attempt[e])]
         /\ UNCHANGED <<outcome, log, i, attempt, total_size>>
    ELSE NextAttempt(e)

\* session.get raises before a response is there: the file is not opened
GetFails(e) ==
    /\ Running(e)
    /\ pc[e] = "get"
    /\ AttemptFailed(e)
    /\ UNCHANGED <<inputs, categories, semaphore, fs, run, cat>>

\* the response is there: the destination is opened for writing
GetResponds(e) ==
    /\ Running(e)
    /\ pc[e] = "get"
    /\ fs' = [fs EXCEPT ![file_path(e)] = OpenWb(fs[file_path(e)])]
    /\ bytes_downloaded' = [bytes_downloaded EXCEPT ![e] = 0]
    /\ pc' = [pc EXCEPT ![e] = "stream"]
    /\ UNCHANGED <<inputs, categories, semaphore, run, cat, i, total_size, attempt, delay,
                   outcome, log>>

\* one chunk is read and await f.write(chunk) is entered: the chunk reaches
\* the file while the task is suspended
WriteChunk(e, b) ==
    /\ Running(e)
    /\ pc[e] = "stream"
    /\ bytes_downloaded[e] < MaxLen
    /\ fs' = [fs EXCEPT ![file_path(e)] = Write(fs[file_path(e)], b)]
    /\ pc' = [pc EXCEPT ![e] = "write"]
    /\ UNCHANGED <<inputs, categories, semaphore, run, cat, i, total_size, attempt, delay,
                   bytes_downloaded, outcome, log>>

\* the task is resumed after the write: bytes_downloaded += len(chunk)
ChunkWritten(e) ==
    /\ Running(e)
    /\ pc[e] = "write"
    /\ bytes_downloaded' = [bytes_downloaded EXCEPT ![e] = bytes_downloaded[e] + 1]
    /\ pc' = [pc EXCEPT ![e] = "stream"]
    /\ UNCHANGED <<inputs, categories, semaphore, fs, run, cat, i, total_size, attempt,
                   delay, outcome, log>>

\* the stream raises while the body is read: what was written stays
StreamFails(e) ==
    /\ Running(e)
    /\ pc[e] = "stream"
    /\ AttemptFailed(e)
    /\ UNCHANGED <<inputs, categories, semaphore, fs, run, cat>>

\* the body has ended and the file is closed: _attempt_download returns
\* bytes_downloaded, _download_file_content compares it with the size, and on a
\* match _download_file verifies the file
StreamEnds(e) ==
    /\ Running(e)
    /\ pc[e] = "stream"
    /\ IF SizeMatches(bytes_downloaded[e], total_size[e])
       THEN IF _verify_download(fs, file_path(e), crc(e))
            THEN /\ Return(e, "SUCCEEDED", "success")
                 /\ UNCHANGED fs
            ELSE /\ Return(e, "FAILED", "hash")
                 /\ fs' = Unlink(fs, file_path(e))
       ELSE /\ AttemptFailed(e)
            /\ UNCHANGED fs
    /\ UNCHANGED <<inputs, categories, semaphore, run, cat>>

\* asyncio.sleep(2**attempt) is over: the loop goes on
BackoffEnds(e) ==
    /\ Running(e)
    /\ pc[e] = "sleep"
    /\ NextAttempt(e)
    /\ UNCHANGED <<inputs, categories, semaphore, fs, run, cat>>

Next ==
    \/ download
    \/ SkipCategory
    \/ _download_category
    \/ GatherReturns
    \/ GatherRaises
    \/ LoopEnds
    \/ \E e \in Entries : _download_file(e)
    \/ \E e \in Entries : \E n \in ContentLengths(e) : HeadContentLength(e, n)
    \/ \E e \in Entries : HeadNoContentLength(e)
    \/ \E e \in Entries : HeadClientError(e)
    \/ \E e \in Entries : HeadTimeout(e)
    \/ \E e \in Entries : GetFails(e)
    \/ \E e \in Entries : GetResponds(e)
    \/ \E e \in Entries, b \in ChunkBytes : WriteChunk(e, b)
    \/ \E e \in Entries : ChunkWritten(e)
    \/ \E e \in Entries : StreamFails(e)
    \/ \E e \in Entries : StreamEnds(e)
    \/ \E e \in Entries : BackoffEnds(e)

Spec == Init /\ [][Next]_vars

(***************************************************************************)
(* The resolution of the manifest root on its own: fetch_catalog_url is    *)
(* applied to each override that is supplied.  Without an override the     *)
(* call searches the bootstrap directories, decrypts the blob and asks the *)
(* server API, and raises when one of them fails: ResolveBootstrap.        *)
(***************************************************************************)
\* no download run is going on: download() has not been called
RunIdle ==
    /\ args = [commands |-> "download", all |-> FALSE, androidassets |-> FALSE,
               iosassets |-> FALSE, tables |-> FALSE, media |-> FALSE]
    /\ limit = None
    /\ fs0 = TreeOf([e \in Entries |-> "absent"], {})
    /\ InitRun

InitUrl ==
    /\ catalog_url \in Overrides
    /\ resolved = << >>
    /\ RunIdle
    /\ SearchIdle
    /\ AcquireIdle
    /\ IndexIdle
    /\ MoreIdle

\* CatalogParser.fetch_catalog_url is called with an override: no outside step
ResolveUrl ==
    /\ resolved = << >>
    /\ catalog_url # << >>
    /\ resolved' = fetch_catalog_url(catalog_url, ServerRoot)
    /\ UNCHANGED <<catalog_url, run_vars, search_vars, acquire_vars, index_vars, more_vars>>

NextUrl == ResolveUrl

SpecUrl == InitUrl /\ [][NextUrl]_vars

(***************************************************************************)
(* The bootstrap search on its own: find_game_config is applied to each    *)
(* state of the three directories.                                         *)
(***************************************************************************)
\* no override is supplied and nothing is resolved yet
UrlIdle == catalog_url = << >> /\ resolved = << >>

InitSearch ==
    /\ version \in {"v1", ""}
    /\ roots \in [RootNames -> UNION {RootStates(RootNumber(n)) : n \in RootNames}]
    /\ \A n \in RootNames : roots[n] \in RootStates(RootNumber(n))
    /\ search_paths = << >>
    /\ game_config = [done |-> FALSE, result |-> NotFound, read |-> << >>]
    /\ RunIdle
    /\ UrlIdle
    /\ AcquireIdle
    /\ IndexIdle
    /\ MoreIdle

\* find_game_config(version)
find_game_config ==
    /\ ~game_config.done
    /\ \E paths \in SearchPaths(version, roots) :
          /\ search_paths' = paths
          /\ game_config' = [done |-> TRUE,
                       result |-> SearchRoots(paths, roots),
                       read |-> ReadInRoots(paths, roots)]
    /\ UNCHANGED <<version, roots, run_vars, url_vars, acquire_vars, index_vars, more_vars>>

NextSearch == find_game_config

SpecSearch == InitSearch /\ [][NextSearch]_vars

(***************************************************************************)
(* ApkParser: the choice of the package URL (_get_apk_url) and the format  *)
(* of the package (_is_regular_apk, extract_apk).                          *)
(***************************************************************************)
\* the components a version string is made of
VersionParts == {"1", "10", "0", "7", ""}

\* version strings: one component and more, joined by dots ("" is <<"">>)
Versions == UNION {[1..n -> VersionParts] : n \in 1..MaxParts}

\* None, as _extract_version_code returns it
NoCode == "None"

\* _extract_version_code(version): version.startswith("1.") and parts[2]
_extract_version_code(ver) ==
    IF ~(Len(ver) >= 2 /\ ver[1] = "1") THEN NoCode
    ELSE IF Len(ver) >= 3 /\ ver[3] # "0" THEN ver[3]
    ELSE NoCode

\* the URLs of the version before the URLs of the version code
_build_url_list_version_first(ver, version_code) ==
    <<Url("APK", "version", ver), Url("XAPK", "version", ver)>>
        \o (IF version_code \notin {NoCode, ""}
            THEN <<Url("APK", "versionCode", <<version_code>>),
                   Url("XAPK", "versionCode", <<version_code>>)>>
            ELSE << >>)

\* _build_url_list(base_url, app_id, version, version_code)
_build_url_list(ver, version_code) ==
    (IF version_code \notin {NoCode, ""}
     THEN <<Url("APK", "versionCode", <<version_code>>),
            Url("XAPK", "versionCode", <<version_code>>)>>
     ELSE << >>)
        \o <<Url("APK", "version", ver), Url("XAPK", "version", ver)>>

\* f'{base_url}/XAPK/{app_id}?version=latest'
LatestUrl == Url("XAPK", "version", <<"latest">>)

html_markers == {"<!DOCTYPE", "<html", "<HTML"}

\* what a GET can bring: an exception, or the first 256 bytes of the body
Responses ==
    {[raised |-> TRUE, content |-> << >>]}
        \cup {[raised |-> FALSE, content |-> c] :
                 c \in {<< >>, <<"PK">>, <<"<!DOCTYPE">>, <<"<html">>, <<"<HTML">>}}

\* _check_url_validity(url): the URL, or NoUrl for None
_check_url_validity(url, response) ==
    IF response.raised THEN NoUrl
    ELSE IF ~(\E marker \in html_markers : marker \in Range(response.content)) THEN url
    ELSE NoUrl

(***************************************************************************)
(* The acquisition: download() calls initialize_download(), which resolves *)
(* the manifest root, fetches the four manifests into the cache, builds    *)
(* the index and saves it as GameFiles.json.  An exception or SystemExit   *)
(* in any step leaves download() before the transfers start.               *)
(***************************************************************************)
\* if self.catalog_url: taken as false for every override
SkipsApk_never(u) == FALSE

\* ResourceDownloader.fetch_catalog_url: if self.catalog_url
SkipsApk(u) == u # << >>

\* the stage that follows a call of CatalogParser.fetch_catalog_url
AfterResolve(s) ==
    CASE s = "resolve1" -> "resolve2"
      [] s = "resolve2" -> "android"
      [] s = "resolve3" -> "load"

\* what a GET of a bundleDownloadInfo.json can give: the document, a 404 with a
\* body that is no JSON, a 404 with a JSON body, no connection
BundleResponses == {"ok", "missing_text", "missing_json", "error"}

\* what a GET of a catalog .bytes file can give
BytesResponses == {"ok", "missing", "error"}

\* _fetch_bytes without the check of the status code
_fetch_bytes_unchecked(r) == "content"

\* _fetch_bytes: anything but a 200 raises
_fetch_bytes(r) == IF r # "ok" THEN "raise" ELSE "content"

\* download_apk(update) with the local package absent, smaller than the remote
\* one, or current: its steps (_fetch_size in compare_apk, _force_download,
\* extract_apk) up to step o, which ends with an exception or SystemExit
\* ("ok": no step does)
ApkEffects(update, local, o) ==
    LET steps == IF update \/ local = "absent" THEN <<"download_apk", "extract_apk">>
                 ELSE IF local = "stale" THEN <<"fetch_size", "download_apk">>
                 ELSE <<"fetch_size", "extract_apk">>
        at == {k \in 1..Len(steps) : steps[k] = o}
        n == IF at = {} THEN Len(steps) ELSE CHOOSE k \in at : TRUE
    IN [k \in 1..n |-> Effect(steps[k], IF steps[k] = o THEN "fail" ELSE "ok")]

\* the step ends with an exception or SystemExit
Fails(es) ==
    /\ stage' = "failed"
    /\ effects' = effects \o es

\* the step goes well
Goes(next, es) ==
    /\ stage' = next
    /\ effects' = effects \o es

\* ResourceDownloader.fetch_catalog_url with an override: nothing but the
\* assignment to the parser
UseOverride ==
    /\ stage = "start"
    /\ SkipsApk(catalog_url)
    /\ stage' = "resolve2"
    /\ UNCHANGED <<run_vars, url_vars, search_vars, cache, effects, payload_kind, phase, index_vars, more_vars>>

\* the version fetch_version gives
FetchedVersion == <<"1", "7", "10">>

\* what the package site answers a probe with: no connection, a package, a page
ProbeResponses ==
    {[raised |-> TRUE, content |-> << >>], [raised |-> FALSE, content |-> <<"PK">>],
     [raised |-> FALSE, content |-> <<"<html">>]}

\* _get_apk_url for the version ver, answers[k] being what the k-th GET brings:
\* the URL chosen and the probes made
_get_apk_url(ver, answers) ==
    IF ver = <<"">> THEN [url |-> LatestUrl, probes |-> << >>]
    ELSE LET urls == _build_url_list(ver, _extract_version_code(ver))
             valid == {k \in 1..Len(urls) :
                          _check_url_validity(urls[k], answers[k]) # NoUrl}
             n == IF valid = {} THEN Len(urls)
                  ELSE CHOOSE k \in valid : \A j \in valid : k <= j
         IN [url |-> IF valid = {} THEN LatestUrl ELSE urls[n],
             probes |-> [k \in 1..n |-> [url |-> urls[k], response |-> answers[k]]]]

\* ApkParser(version=self.version): without a version the latest one is
\* fetched; then the URL of the package is chosen by probing the package site
ApkParser ==
    /\ stage = "start"
    /\ ~SkipsApk(catalog_url)
    /\ \/ /\ version = ""
          /\ Fails(<<Effect("fetch_version", "fail")>>)
          /\ UNCHANGED <<apk_version, probes, apk_url>>
       \/ \E answers \in [1..4 -> ProbeResponses] :
             LET ver == IF version # "" THEN <<version>> ELSE FetchedVersion
                 got == _get_apk_url(ver, answers)
             IN /\ apk_version' = ver
                /\ probes' = got.probes
                /\ apk_url' = got.url
                /\ Goes("apk",
                        (IF version = "" THEN <<Effect("fetch_version", "ok")>> ELSE << >>)
                        \o [k \in 1..Len(got.probes) |->
                              Effect("probe",
                                     IF got.probes[k].url = got.url THEN "ok" ELSE "fail")])
    /\ UNCHANGED <<run_vars, url_vars, search_vars, cache, payload_kind, phase, index_vars,
                   key_vars, extract_vars, package, late_vars>>

\* apk_parser.download_apk(self.update): _force_download removes data/ once
\* the response is there (_delete_outdated_files) and extract_apk writes the
\* files of the package below it, those of assets/bin/Data into the bootstrap
\* directory of the package's version
download_apk ==
    /\ stage = "apk"
    /\ LET \* jp/<version>/data/assets/bin/Data: the directory of the version
           \* given, or of the one fetch_version gives, which is the other
           \* version directory
           version_dir == IF version # "" THEN version ELSE "v2"
           gone == [exists |-> FALSE, files |-> << >>]
           \* what the package holds under assets/bin/Data: nothing, a file
           \* with the signature and a payload, a file without the signature
           bootstraps == {<< >>, <<FileOfKind("good", RootNumber(version_dir))>>,
                          <<FileOfKind("none", RootNumber(version_dir))>>}
           \* _extract_files makes the directory of an entry below
           \* data/ before zip.extract writes the entry into extract_path,
           \* which is apk/ for the outer archive of a multi-part package:
           \* the bootstrap directory can be made with nothing written to it.
           \* zip.extract over a directory: a file of the same name is
           \* replaced, the others stay, in any place of the listing
           extract(root, files) ==
               {[exists |-> TRUE, files |-> root.files]}
               \cup (IF files = << >> THEN {root}
                     ELSE {[exists |-> TRUE, files |-> q] :
                             q \in {files} \cup {root.files \o files, files \o root.files}})
       IN
       \E update \in BOOLEAN, local \in {"absent", "stale", "current"},
          o \in {"ok", "fetch_size", "download_apk", "extract_apk"},
          served \in bootstraps :
          LET es == ApkEffects(update, local, o)
              went(st) == \E k \in 1..Len(es) : es[k] = Effect(st, "ok")
              failed(st) == \E k \in 1..Len(es) : es[k] = Effect(st, "fail")
              \* a download fails before the removal (_get_response) or after
              \* it (_download_file)
              removed == IF went("download_apk") THEN {gone}
                         ELSE IF failed("download_apk") THEN {roots[version_dir], gone}
                         ELSE {roots[version_dir]}
              \* an extraction fails before the files are written or after
              extracted(r) == IF went("extract_apk") THEN extract(r, served)
                              ELSE IF failed("extract_apk")
                              THEN {r} \cup extract(r, served)
                              ELSE {r}
          IN /\ \E r1 \in removed : \E r2 \in extracted(r1) :
                   roots' = [roots EXCEPT ![version_dir] = r2]
             /\ IF es[Len(es)].outcome = "fail" THEN Fails(es) ELSE Goes("resolve1", es)
    /\ UNCHANGED <<run_vars, url_vars, version, search_paths, game_config, cache,
                   payload_kind, phase, index_vars, more_vars>>

\* CatalogParser.fetch_catalog_url with an override: no outside step
ResolveOverride ==
    /\ stage \in {"resolve1", "resolve2", "resolve3"}
    /\ catalog_url # << >>
    /\ resolved' = fetch_catalog_url(catalog_url, ServerRoot)
    /\ stage' = AfterResolve(stage)
    /\ UNCHANGED <<run_vars, catalog_url, search_vars, cache, effects, payload_kind, phase, index_vars, more_vars>>

\* CatalogParser.fetch_catalog_url without an override: catalog_url(version)
\* searches the bootstrap blob and decrypts it, then the server API is asked
ResolveBootstrap ==
    /\ stage \in {"resolve1", "resolve2", "resolve3"}
    /\ catalog_url = << >>
    /\ \E paths \in SearchPaths(version, roots) :
          LET result == SearchRoots(paths, roots) IN
          /\ search_paths' = paths
          /\ game_config' = [done |-> TRUE, result |-> result,
                             read |-> ReadInRoots(paths, roots)]
          /\ IF ~result.found
             THEN /\ Fails(<<Effect("find_game_config", "none")>>)
                  /\ UNCHANGED resolved
             ELSE IF payload_kind # "ok"
             THEN /\ Fails(<<Effect("find_game_config", "ok"),
                              Effect("decrypt_game_config", payload_kind)>>)
                  /\ UNCHANGED resolved
             ELSE \/ /\ Goes(AfterResolve(stage),
                              <<Effect("find_game_config", "ok"),
                                Effect("decrypt_game_config", "ok"),
                                Effect("serverapi", "ok")>>)
                     /\ resolved' = fetch_catalog_url(catalog_url, ServerRoot)
                  \/ /\ Fails(<<Effect("find_game_config", "ok"),
                                 Effect("decrypt_game_config", "ok"),
                                 Effect("serverapi", "fail")>>)
                     /\ UNCHANGED resolved
    /\ UNCHANGED <<run_vars, catalog_url, version, roots, cache, payload_kind, phase, index_vars, more_vars>>

\* fetch_catalogs: _fetch_data of a bundleDownloadInfo.json and save_json of
\* what .json() gives
FetchBundleInfo(m, next) ==
    /\ stage = m
    /\ \E r \in BundleResponses :
          IF r = "ok" \/ r = "missing_json"
          THEN /\ Goes(next, <<Effect(m, r)>>)
               /\ cache' = [cache EXCEPT ![m] = IF r = "ok" THEN "ok" ELSE "nokey"]
          ELSE /\ Fails(<<Effect(m, r)>>)
               /\ UNCHANGED cache
    /\ UNCHANGED <<run_vars, url_vars, search_vars, payload_kind, phase, index_vars, more_vars>>

\* fetch_catalogs: _fetch_table_bytes, then CatalogDecrypter.from_bytes, which
\* raises on bytes that are no catalog, and to_json
_fetch_table_bytes ==
    /\ stage = "table"
    /\ \E r \in BytesResponses :
          IF _fetch_bytes(r) = "content"
          THEN \/ /\ Goes("media", <<Effect("table", r)>>)
                  /\ cache' = [cache EXCEPT !["table"] = "ok"]
               \/ /\ Fails(<<Effect("table", r), Effect("from_bytes", "raise")>>)
                  /\ UNCHANGED cache
          ELSE /\ Fails(<<Effect("table", r)>>)
               /\ UNCHANGED cache
    /\ UNCHANGED <<run_vars, url_vars, search_vars, payload_kind, phase, index_vars, more_vars>>

\* _fetch_media_bytes asking for both paths, whatever the first one gives
_fetch_media_bytes_both ==
    /\ stage = "media"
    /\ \E r1 \in BytesResponses, r2 \in BytesResponses :
          LET es == <<Effect("media1", r1), Effect("media2", r2)>> IN
          IF _fetch_bytes(r1) = "content" \/ _fetch_bytes(r2) = "content"
          THEN \/ /\ Goes(IF phase = "catalogs" THEN "fetched" ELSE "resolve3", es)
                  /\ cache' = [cache EXCEPT !["media"] = "ok"]
               \/ /\ Fails(es \o <<Effect("from_bytes", "raise")>>)
                  /\ UNCHANGED cache
          ELSE /\ Fails(es)
               /\ UNCHANGED cache
    /\ UNCHANGED <<run_vars, url_vars, search_vars, payload_kind, phase, index_vars, more_vars>>

\* fetch_catalogs: _fetch_media_bytes, which tries a second path when the first
\* one fails, then CatalogDecrypter.from_bytes, which raises on bytes that are
\* no catalog, and to_json.  fetch_catalogs returns to CatalogList.__init__
\* when that called it, and to initialize_download otherwise.
_fetch_media_bytes ==
    /\ stage = "media"
    /\ \E r1 \in BytesResponses, r2 \in BytesResponses :
          LET es == IF _fetch_bytes(r1) = "content" THEN <<Effect("media1", r1)>>
                    ELSE <<Effect("media1", r1), Effect("media2", r2)>>
          IN
          IF _fetch_bytes(r1) = "content" \/ _fetch_bytes(r2) = "content"
          THEN \/ /\ Goes(IF phase = "catalogs" THEN "fetched" ELSE "resolve3", es)
                  /\ cache' = [cache EXCEPT !["media"] = "ok"]
               \/ /\ Fails(es \o <<Effect("from_bytes", "raise")>>)
                  /\ UNCHANGED cache
          ELSE /\ Fails(es)
               /\ UNCHANGED cache
    /\ UNCHANGED <<run_vars, url_vars, search_vars, payload_kind, phase, index_vars, more_vars>>

\* get_game_files after its fetch_catalog_url: the four cache files are loaded
\* and indexed; a file that is absent or has no list of entries raises
LoadManifests ==
    /\ stage = "load"
    /\ IF \A m \in ManifestNames : cache[m] = "ok"
       THEN Goes("save", << >>)
       ELSE Fails(<<Effect("get_game_files", "raise")>>)
    /\ UNCHANGED <<run_vars, url_vars, search_vars, cache, payload_kind, phase, index_vars, more_vars>>

\* initialize_download: self.version or fetch_version(), then GameFiles.json
\* is saved
save_json ==
    /\ stage = "save"
    /\ IF version # "" THEN Goes("ready", <<Effect("save_json", "ok")>>)
       ELSE \/ Goes("ready", <<Effect("fetch_version", "ok"), Effect("save_json", "ok")>>)
            \/ Fails(<<Effect("fetch_version", "fail")>>)
    /\ UNCHANGED <<run_vars, url_vars, search_vars, cache, payload_kind, phase, index_vars, more_vars>>

\* CatalogList.__init__ after its fetch_catalog_url and fetch_catalogs: the
\* cache directory itself holds no GameFiles.json (initialize_download saves
\* it in the directory of the version), so initialize_download is called; it
\* fetches the four documents again, over the files just written
CatalogList ==
    /\ args.commands = "search"
    /\ stage = "fetched"
    /\ stage' = "start"
    /\ phase' = "prepare"
    /\ effects' = << >>
    /\ cache' = [m \in ManifestNames |-> IF cache[m] = "absent" THEN "absent" ELSE "old"]
    /\ UNCHANGED <<run_vars, url_vars, search_vars, payload_kind, index_vars, more_vars>>

\* _handle_input with Enter, the browser showing its rows (after __init__, or
\* after the Enter before): _download_selected_item stops the display and
\* calls initialize_download, which fetches the four documents again
_handle_input ==
    /\ args.commands = "search"
    /\ \/ stage = "ready" /\ phase = "prepare"
       \/ stage = "browse"
    /\ run \in {"new", "done"}
    /\ BrowserRows(manifests) # {}
    /\ stage' = "start"
    /\ phase' = "enter"
    /\ effects' = << >>
    /\ cache' = [m \in ManifestNames |-> IF cache[m] = "absent" THEN "absent" ELSE "old"]
    /\ UNCHANGED <<run_vars, url_vars, search_vars, payload_kind, index_vars, more_vars>>

\* the states of the bootstrap directories an acquisition is started in
AcquireRoots ==
    {[n \in RootNames |->
        IF n = d
        THEN [exists |-> TRUE, files |-> <<FileOfKind("good", RootNumber(n))>>]
        ELSE [exists |-> FALSE, files |-> << >>]] : d \in {"", "default", "v1"}}

\* the acquisitions tried: with an override, which reads neither the bootstrap
\* directories nor a payload, by both commands, from both trees and over a
\* cache directory that is empty or holds the four files of an earlier run;
\* without one, by the download command from the empty tree and cache.  The
\* download command starts in initialize_download, the search command in
\* CatalogList.__init__, whose fetch_catalog_url and fetch_catalogs come first.
InitAcquire ==
    /\ catalog_url \in {<< >>, <<"s", "r", "v">>}
    /\ resolved = << >>
    /\ version \in {"v1", ""}
    /\ roots \in (IF catalog_url = << >> THEN AcquireRoots
                   ELSE {[n \in RootNames |-> [exists |-> FALSE, files |-> << >>]]})
    /\ search_paths = << >>
    /\ game_config = [done |-> FALSE, result |-> NotFound, read |-> << >>]
    /\ stage = "start"
    /\ cache \in {[m \in ManifestNames |-> "absent"]}
                  \cup (IF catalog_url = << >> THEN {}
                        ELSE {[m \in ManifestNames |-> "old"]})
    /\ effects = << >>
    /\ payload_kind \in (IF catalog_url = << >> THEN {"ok", "badjson", "nokey"}
                          ELSE {"ok"})
    /\ args \in {[commands |-> "download", all |-> FALSE, androidassets |-> FALSE,
                 iosassets |-> TRUE, tables |-> FALSE, media |-> TRUE]}
                \cup (IF catalog_url = << >> THEN {}
                      ELSE {[commands |-> "search", all |-> FALSE,
                             androidassets |-> FALSE, iosassets |-> FALSE,
                             tables |-> FALSE, media |-> FALSE]})
    /\ limit = None
    /\ fs0 \in {TreeOf([e \in Entries |-> "absent"], {})}
                \cup (IF catalog_url = << >> THEN {}
                      ELSE {TreeOf([e \in Entries |-> "absent"],
                                   {<<"output", "MediaResources">>})})
    /\ InitRun
    /\ phase = IF args.commands = "search" THEN "catalogs" ELSE "initialize"
    /\ manifests \in LoadedManifests(args)
    /\ index = [built |-> FALSE, files |-> get_game_files(ServerRoot, manifests)]
    /\ MoreIdle

NextAcquire ==
    \/ UseOverride
    \/ ApkParser
    \/ download_apk
    \/ ResolveOverride
    \/ ResolveBootstrap
    \/ FetchBundleInfo("android", "ios")
    \/ FetchBundleInfo("ios", "table")
    \/ _fetch_table_bytes
    \/ _fetch_media_bytes
    \/ LoadManifests
    \/ save_json
    \/ CatalogList
    \/ _handle_input
    \/ _download_selected_item
    \/ Next

SpecAcquire == InitAcquire /\ [][NextAcquire]_vars

(***************************************************************************)
(* The indexing on its own: get_game_files is applied to each choice of    *)
(* the four manifests.                                                     *)
(***************************************************************************)
InitIndex ==
    /\ manifests \in ManifestChoices
    /\ index = [built |-> FALSE,
                files |-> get_game_files(ServerRoot,
                            [android |-> << >>, ios |-> << >>, table |-> << >>,
                             media |-> << >>])]
    /\ RunIdle
    /\ UrlDone
    /\ SearchIdle
    /\ AcquireIdle
    /\ MoreIdle

\* result = self.catalog_parser.get_game_files()
BuildIndex ==
    /\ ~index.built
    /\ index' = [built |-> TRUE, files |-> get_game_files(resolved, manifests)]
    /\ UNCHANGED <<manifests, run_vars, url_vars, search_vars, acquire_vars, more_vars>>

NextIndex == BuildIndex

SpecIndex == InitIndex /\ [][NextIndex]_vars

(***************************************************************************)
(* Key derivation on its own: containers are opened, key streams are       *)
(* derived, a string is encrypted and decrypted again.                     *)
(***************************************************************************)
Calls == Len(opened) + Len(derived)

\* one more container or key stream can follow, and no string is being ciphered
CanCall == Calls < MaxCalls /\ cipher.stage = "none"

\* TableZipFile(file, password) with a password: it is kept as it is
OpenWithPassword ==
    /\ CanCall
    /\ \E file \in ArchiveFiles, password \in ExplicitPasswords :
          opened' = Append(opened, [file |-> file, supplied |-> TRUE, given |-> password,
                                    password |-> password, generated |-> FALSE])
    /\ UNCHANGED <<twister, derived, cipher, download_vars, extract_vars, apk_vars,
                   late_vars>>

\* TableZipFile(file): the password is made from Path(file).name.lower()
OpenByName ==
    /\ CanCall
    /\ \E file \in ArchiveFiles :
          LET made == _generate_password(twister, lower(PathName(file)[1])) IN
          /\ opened' = Append(opened, [file |-> file, supplied |-> FALSE, given |-> << >>,
                                       password |-> made.password, generated |-> TRUE])
          /\ twister' = made.twister
    /\ UNCHANGED <<derived, cipher, download_vars, extract_vars, apk_vars,
                   late_vars>>

\* deriveStream(seed, n): n bytes of the generator seeded with seed
deriveStream ==
    /\ CanCall
    /\ \E name \in {<<"a">>, <<"b">>}, n \in 0..MaxStream :
          LET drawn == next_bytes(NewTwister(twister, calculate_hash(name)), n) IN
          /\ derived' = Append(derived, [seed |-> calculate_hash(name), length |-> n,
                                         bytes |-> drawn.bytes])
          /\ twister' = drawn.twister
    /\ UNCHANGED <<opened, cipher, download_vars, extract_vars, apk_vars,
                   late_vars>>

\* a string is encrypted
Encrypt ==
    /\ cipher.stage = "none"
    /\ Calls = 0
    /\ \E plain \in PlainTexts, key \in CipherKeys :
          cipher' = [stage |-> "encrypted", plain |-> plain, key |-> key,
                     text |-> new_encrypt_string(plain, key), back |-> << >>]
    /\ UNCHANGED <<twister, opened, derived, download_vars, extract_vars, apk_vars,
                   late_vars>>

\* and decrypted with the same key
Decrypt ==
    /\ cipher.stage = "encrypted"
    /\ cipher' = [cipher EXCEPT !.stage = "decrypted",
                                !.back = convert_string(cipher.text, cipher.key)]
    /\ UNCHANGED <<twister, opened, derived, download_vars, extract_vars, apk_vars,
                   late_vars>>

InitKey ==
    /\ KeyIdle
    /\ ExtractIdle
    /\ ApkIdle
    /\ LateIdle
    /\ RunIdle
    /\ UrlDone
    /\ SearchIdle
    /\ AcquireIdle
    /\ IndexIdle

NextKey ==
    \/ OpenWithPassword
    \/ OpenByName
    \/ deriveStream
    \/ Encrypt
    \/ Decrypt

SpecKey == InitKey /\ [][NextKey]_vars

(***************************************************************************)
(* The extract command: arguments(), extracter() and the media extraction  *)
(* of MediaExtracter.                                                      *)
(***************************************************************************)
\* the options of the extract parser (--path aside)
ExtractArguments ==
    [all : BOOLEAN, tables : BOOLEAN, assets : BOOLEAN, media : BOOLEAN,
     studio : BOOLEAN]

\* arguments(): the option combinations that end in SystemExit(1)
RejectsArguments(a) ==
    \/ a.all /\ (a.assets \/ a.tables \/ a.media)
    \/ Cardinality({o \in {"assets", "tables", "media"} : a[o]}) > 1

\* extracter(args): the extracters it runs, in order
extracter(a) ==
    LET b == IF a.all THEN [a EXCEPT !.tables = TRUE, !.assets = TRUE, !.media = TRUE]
                      ELSE a
    IN  IF b.tables THEN <<"TableExtracter">>
        ELSE IF b.assets /\ ~b.studio THEN <<"AssetExtracter">>
        ELSE IF b.assets /\ b.studio THEN <<"AssetStudioExtracter">>
        ELSE IF b.media THEN <<"MediaExtracter">>
        ELSE << >>

\* what a member of an archive is: readable, encrypted under another password
\* (the check byte differs), stored with a wrong CRC-32, or encrypted under
\* another password whose check byte agrees (the deflate stream is garbage)
MemberKinds == {"good", "badpwd", "badcrc", "corrupt"}

\* tz.read(name): the bytes of the member, or the exception ZipFile.read raises
read(kind) ==
    CASE kind = "good" -> "data"
      [] kind = "badpwd" -> "RuntimeError"
      [] kind = "badcrc" -> "BadZipFile"
      [] kind = "corrupt" -> "zlib.error"

\* the except clauses of extract_media: what they print ("": not caught)
Report(exc) ==
    CASE exc = "BadZipFile" -> "is not a valid zip file"
      [] exc = "RuntimeError" -> "Error extracting"
      [] OTHER -> ""

\* the with statement is left and the archive keeps its handle
WithExit_unless_raised(handle, exc) == IF exc = "" THEN "closed" ELSE handle

\* the with statement is left, by the end of its body (exc = "") or by an
\* exception: ZipFile.__exit__ closes the archive
WithExit(handle, exc) == "closed"

\* the names glob('*.zip') can list
MediaFiles == <<"a.zip", "b.zip">>

\* a file named *.zip: a zip archive with its members, or something else
ArchiveChoices ==
    {[zip |-> FALSE, members |-> << >>]}
        \cup {[zip |-> TRUE, members |-> m] :
                 m \in UNION {[1..n -> MemberKinds] : n \in 0..MaxMembers}}

\* an extract_media task that has not started
NoPass ==
    [pc |-> "new", handle |-> "none", k |-> 0, extracted |-> {}, raised |-> "",
     report |-> ""]

\* the pass ends by exception exc while the archive is in state handle
Ended(pass, handle, exc) ==
    [pass EXCEPT !.pc = "ended", !.handle = handle, !.raised = exc,
                 !.report = Report(exc)]

\* the task the event loop runs: tasks have no await, each runs to its end
\* before the next one starts, in the order of the list
Current == CHOOSE a \in 1..Len(passes) :
               /\ passes[a].pc # "ended"
               /\ \A b \in 1..(a - 1) : passes[b].pc = "ended"

Gathering == xpc = "gather" /\ \E a \in 1..Len(passes) : passes[a].pc # "ended"

\* arguments() for the extract command
arguments ==
    /\ xpc = "start"
    /\ xpc' = IF RejectsArguments(command) THEN "exit" ELSE "parsed"
    /\ UNCHANGED <<command, archives, ran, passes, download_vars, key_vars, apk_vars,
                   late_vars>>

\* extracter(args): TableExtracter, AssetExtracter and AssetStudioExtracter
\* return or raise; MediaExtracter.run_extraction is followed step by step
Extract ==
    /\ xpc = "parsed"
    /\ ran' = extracter(command)
    /\ IF ran' = <<"MediaExtracter">> THEN xpc' = "media"
       ELSE IF ran' = << >> THEN xpc' = "done"
       ELSE xpc' \in {"done", "raised"}
    /\ UNCHANGED <<command, archives, passes, download_vars, key_vars, apk_vars,
                   late_vars>>

\* extract_all_media up to gather: one task per *.zip file
extract_all_media ==
    /\ xpc = "media"
    /\ IF archives = << >>
       THEN xpc' = "done" /\ UNCHANGED passes
       ELSE xpc' = "gather" /\ passes' = [a \in 1..Len(archives) |-> NoPass]
    /\ UNCHANGED <<command, archives, ran, download_vars, key_vars, apk_vars,
                   late_vars>>

\* TableZipFile(media_file), namelist() and the directory of the archive:
\* ZipFile.__init__ closes the file it opened when it is no zip archive
OpenArchive ==
    /\ Gathering
    /\ passes[Current].pc = "new"
    /\ passes' = [passes EXCEPT ![Current] =
          IF archives[Current].zip
          THEN [@ EXCEPT !.pc = "members", !.handle = "open", !.k = 1]
          ELSE Ended(@, "closed", "BadZipFile")]
    /\ UNCHANGED <<command, archives, xpc, ran, download_vars, key_vars, apk_vars,
                   late_vars>>

\* one turn of the loop over file_list: tz.read(name) and fp.write_bytes(data)
ReadMember ==
    /\ Gathering
    /\ passes[Current].pc = "members"
    /\ passes[Current].k <= Len(archives[Current].members)
    /\ LET k == passes[Current].k
           got == read(archives[Current].members[k])
       IN  passes' = [passes EXCEPT ![Current] =
              IF got = "data"
              THEN [@ EXCEPT !.k = k + 1, !.extracted = @ \cup {k}]
              ELSE Ended(@, WithExit(@.handle, got), got)]
    /\ UNCHANGED <<command, archives, xpc, ran, download_vars, key_vars, apk_vars,
                   late_vars>>

\* the loop over file_list is over and the with statement is left
CloseArchive ==
    /\ Gathering
    /\ passes[Current].pc = "members"
    /\ passes[Current].k > Len(archives[Current].members)
    /\ passes' = [passes EXCEPT ![Current] = Ended(@, WithExit(@.handle, ""), "")]
    /\ UNCHANGED <<command, archives, xpc, ran, download_vars, key_vars, apk_vars,
                   late_vars>>

\* gather returns, or raises what a task raised
Gathered ==
    /\ xpc = "gather"
    /\ ~Gathering
    /\ xpc' = IF \E a \in 1..Len(passes) :
                     passes[a].raised # "" /\ passes[a].report = ""
              THEN "raised" ELSE "done"
    /\ UNCHANGED <<command, archives, ran, passes, download_vars, key_vars, apk_vars,
                   late_vars>>

InitExtract ==
    /\ command \in ExtractArguments
    /\ archives \in UNION {[1..n -> ArchiveChoices] : n \in 0..Len(MediaFiles)}
    /\ xpc = "start"
    /\ ran = << >>
    /\ passes = << >>
    /\ KeyIdle
    /\ ApkIdle
    /\ LateIdle
    /\ RunIdle
    /\ UrlDone
    /\ SearchIdle
    /\ AcquireIdle
    /\ IndexIdle

NextExtract ==
    \/ arguments
    \/ Extract
    \/ extract_all_media
    \/ OpenArchive
    \/ ReadMember
    \/ CloseArchive
    \/ Gathered

SpecExtract == InitExtract /\ [][NextExtract]_vars

(***************************************************************************)
(* The loop of _get_apk_url, one probe at a time, and extract_apk.          *)
(***************************************************************************)
\* the URLs the loop of _get_apk_url goes through
UrlsToTry == _build_url_list(apk_version, _extract_version_code(apk_version))

\* one turn of the loop of _get_apk_url: a URL is checked and returned if valid
TryUrl ==
    /\ apk_url = NoUrl
    /\ apk_version # <<"">>
    /\ Len(probes) < Len(UrlsToTry)
    /\ \E response \in Responses :
          LET url == UrlsToTry[Len(probes) + 1] IN
          /\ probes' = Append(probes, [url |-> url, response |-> response])
          /\ apk_url' = _check_url_validity(url, response)
    /\ UNCHANGED <<apk_version, package, download_vars, key_vars, extract_vars,
                   late_vars>>

\* _get_apk_url returns the latest package: no version, or no URL was valid
UseLatest ==
    /\ apk_url = NoUrl
    /\ apk_version = <<"">> \/ Len(probes) = Len(UrlsToTry)
    /\ apk_url' = LatestUrl
    /\ UNCHANGED <<apk_version, probes, package, download_vars, key_vars, extract_vars,
                   late_vars>>

InitApk ==
    /\ apk_version \in Versions
    /\ probes = << >>
    /\ apk_url = NoUrl
    /\ package = NoPackage
    /\ KeyIdle
    /\ ExtractIdle
    /\ LateIdle
    /\ RunIdle
    /\ UrlDone
    /\ SearchIdle
    /\ AcquireIdle
    /\ IndexIdle

NextApk == TryUrl \/ UseLatest

SpecApk == InitApk /\ [][NextApk]_vars

xapk_indicators == {<<"manifest.json">>, <<"com.YostarJP.BlueArchive.apk">>,
                    <<"UnityDataAssetPack.apk">>}

apk_indicators == {<<"AndroidManifest.xml">>, <<"classes.dex">>, <<"resources.arsc">>}

\* entry.endswith(indicator), names being split where an indicator can start
endswith(entry, indicator) ==
    /\ Len(entry) >= Len(indicator)
    /\ SubSeq(entry, Len(entry) - Len(indicator) + 1, Len(entry)) = indicator

\* the names the entries of a package are drawn from
EntryNames ==
    {<<"manifest.json">>, <<"UnityDataAssetPack.apk">>, <<"AndroidManifest.xml">>,
     <<"lib/", "classes.dex">>, <<"assets/", "manifest.json">>, <<"icon.png">>}

\* file_path.suffix of the package
Suffixes == {<<".", "a", "p", "k">>, <<".", "A", "P", "K">>, <<".", "x", "a", "p", "k">>}

\* the file at apk_path: a zip archive with its entries, or a file ZipFile
\* cannot read
Packages ==
    {[stage |-> "none", readable |-> r, names |-> n, suffix |-> x,
      regular |-> FALSE, route |-> ""] :
        r \in BOOLEAN, n \in SUBSET EntryNames, x \in Suffixes}

\* the indicators of an application are looked for first
_is_regular_apk_apk_first(p) ==
    IF ~p.readable THEN FALSE
    ELSE IF \E indicator \in apk_indicators :
               \E entry \in p.names : endswith(entry, indicator)
    THEN TRUE
    ELSE IF \E indicator \in xapk_indicators : indicator \in p.names THEN FALSE
    ELSE lower(p.suffix) = <<".", "a", "p", "k">>

\* _is_regular_apk(file_path)
_is_regular_apk(p) ==
    IF ~p.readable THEN FALSE
    ELSE IF \E indicator \in xapk_indicators : indicator \in p.names THEN FALSE
    ELSE \/ \E indicator \in apk_indicators :
               \E entry \in p.names : endswith(entry, indicator)
         \/ lower(p.suffix) = <<".", "a", "p", "k">>

\* extract_apk: the package goes to _extract_regular_apk or to _extract_xapk; a
\* file ZipFile cannot read is taken for a wrapper and _parse_zipfile raises
extract_apk ==
    /\ package.stage = "none"
    /\ package' = [package EXCEPT
          !.stage = IF package.readable THEN "extracted" ELSE "raised",
          !.regular = _is_regular_apk(package),
          !.route = IF _is_regular_apk(package) THEN "_extract_regular_apk"
                                                ELSE "_extract_xapk"]
    /\ UNCHANGED <<apk_version, probes, apk_url, download_vars, key_vars, extract_vars,
                   late_vars>>

\* an ApkParser that was given its URL is handed a package
InitPackage ==
    /\ apk_version = <<"1", "7", "10">>
    /\ probes = << >>
    /\ apk_url = LatestUrl
    /\ package \in {p \in Packages : p.readable \/ p.names = {}}
    /\ KeyIdle
    /\ ExtractIdle
    /\ LateIdle
    /\ RunIdle
    /\ UrlDone
    /\ SearchIdle
    /\ AcquireIdle
    /\ IndexIdle

NextPackage == extract_apk

SpecPackage == InitPackage /\ [][NextPackage]_vars

(***************************************************************************)
(* ApkParser.download_apk: the package file at apk_path, the folders apk/  *)
(* and data/ next to it, and the package the server holds.                 *)
(***************************************************************************)
\* the application archives _extract_xapk looks for, in the order of apk_files
NestedArchives == <<<<"UnityDataAssetPack.apk">>, <<"com.YostarJP.BlueArchive.apk">>>>

\* the files a package can be: an application archive, a wrapper with some of
\* its nested archives, or a file that is no zip archive
DiskPackages ==
    {[exists |-> TRUE, readable |-> TRUE, names |-> n, suffix |-> XapkSuffix, size |-> z] :
        n \in {{<<"AndroidManifest.xml">>}}
                 \cup {{<<"manifest.json">>} \cup x : x \in SUBSET Range(NestedArchives)},
        z \in {1, 2}}
      \cup {[exists |-> TRUE, readable |-> FALSE, names |-> {}, suffix |-> XapkSuffix,
             size |-> z] : z \in {1, 2}}

\* what the entries named names of package p are once extracted
FilesOf(p, names) == {[name |-> n, from |-> p] : n \in names}

\* ZipFile.extract of each entry into a folder: the folder is made by the
\* first entry, files of the same name are replaced
ExtractInto(folder, files) ==
    [exists |-> folder.exists \/ files # {},
     files |-> {f \in folder.files : \A g \in files : g.name # f.name} \cup files]

\* _extract_xapk giving up at the first nested archive that is missing
RECURSIVE _extract_xapk_stops(_, _, _)
_extract_xapk_stops(d, warned, k) ==
    IF k > Len(NestedArchives) THEN [disk |-> d, warnings |-> warned]
    ELSE IF \E f \in d.apk.files : f.name = NestedArchives[k]
    THEN _extract_xapk_stops(
            [d EXCEPT !.data = ExtractInto(@, {f \in d.apk.files :
                                                  f.name = NestedArchives[k]})],
            warned, k + 1)
    ELSE [disk |-> d, warnings |-> warned \cup {NestedArchives[k]}]

\* the loop of _extract_xapk from the k-th nested archive on: one that exists in
\* apk/ is extracted into data/, one that is missing is warned about
RECURSIVE _extract_xapk(_, _, _)
_extract_xapk(d, warned, k) ==
    IF k > Len(NestedArchives) THEN [disk |-> d, warnings |-> warned]
    ELSE IF \E f \in d.apk.files : f.name = NestedArchives[k]
    THEN _extract_xapk(
            [d EXCEPT !.data = ExtractInto(@, {f \in d.apk.files :
                                                  f.name = NestedArchives[k]})],
            warned, k + 1)
    ELSE _extract_xapk(d, warned \cup {NestedArchives[k]}, k + 1)

\* extract_apk on the disk d, for a package ZipFile can read
ExtractApk(d) ==
    LET made == [d EXCEPT !.data = [exists |-> TRUE, files |-> d.data.files]] IN
    IF _is_regular_apk(made.package)
    THEN [disk |-> [made EXCEPT !.data = ExtractInto(@, FilesOf(made.package, {<<"self">>}))],
          warnings |-> {}]
    ELSE _extract_xapk(
            [made EXCEPT !.apk = ExtractInto(@, FilesOf(made.package, made.package.names))],
            {}, 1)

\* compare_apk: local_size < remote_size
compare_apk(local, served) == local.size < served.size

\* download_apk(update) up to its first request: the branch is chosen, and
\* compare_apk asks for the size of the remote package
DownloadApk ==
    /\ dl.pc = "start"
    /\ IF dl.update \/ ~disk.package.exists
       THEN dl' = [dl EXCEPT !.pc = "force", !.after = "extract"]
       ELSE \/ dl' = [dl EXCEPT !.pc = "exit", !.status = 1, !.failed = "size"]
            \/ dl' = IF compare_apk(disk.package, remote)
                     THEN [dl EXCEPT !.pc = "force", !.after = "return"]
                     ELSE [dl EXCEPT !.pc = "extract"]
    /\ UNCHANGED <<disk, remote, filter_vars, download_vars, key_vars, extract_vars,
                   apk_vars>>

\* _get_response failing with the folders deleted all the same
_get_response_deleting ==
    /\ dl.pc = "force"
    /\ \/ /\ dl' = [dl EXCEPT !.pc = "exit", !.status = 1, !.failed = "response"]
          /\ disk' = [disk EXCEPT !.apk = NoFolder, !.data = NoFolder]
       \/ /\ dl' = [dl EXCEPT !.pc = "delete"]
          /\ UNCHANGED disk
    /\ UNCHANGED <<remote, filter_vars, download_vars, key_vars, extract_vars, apk_vars>>

\* _force_download: _get_response gives the response or ends in SystemExit(1)
_get_response ==
    /\ dl.pc = "force"
    /\ \/ dl' = [dl EXCEPT !.pc = "exit", !.status = 1, !.failed = "response"]
       \/ dl' = [dl EXCEPT !.pc = "delete"]
    /\ UNCHANGED <<disk, remote, filter_vars, download_vars, key_vars, extract_vars,
                   apk_vars>>

\* _delete_outdated_files: apk/ and data/ are removed
_delete_outdated_files ==
    /\ dl.pc = "delete"
    /\ disk' = [disk EXCEPT !.apk = NoFolder, !.data = NoFolder]
    /\ dl' = [dl EXCEPT !.pc = "write"]
    /\ UNCHANGED <<remote, filter_vars, download_vars, key_vars, extract_vars, apk_vars>>

\* ApkParser._download_file: the file is opened with 'wb' and the body is
\* written to it, to its end or until the stream raises; what was written
\* before the exception stays, be it nothing or the whole body
WritePackage ==
    LET \* the file at apk_path once n units of the body were written to it
        Written(n) ==
            IF n = remote.size THEN remote
            ELSE [exists |-> TRUE, readable |-> FALSE, names |-> {},
                  suffix |-> XapkSuffix, size |-> n]
    IN
    /\ dl.pc = "write"
    /\ \/ /\ disk' = [disk EXCEPT !.package = Written(remote.size)]
          /\ dl' = [dl EXCEPT !.pc = IF dl.after = "extract" THEN "extract" ELSE "done"]
       \/ \E n \in 0..remote.size :
             /\ disk' = [disk EXCEPT !.package = Written(n)]
             /\ dl' = [dl EXCEPT !.pc = "raised", !.failed = "stream"]
    /\ UNCHANGED <<remote, filter_vars, download_vars, key_vars, extract_vars, apk_vars>>

\* extract_apk: a file ZipFile cannot read makes _parse_zipfile raise
ExtractPackage ==
    /\ dl.pc = "extract"
    /\ IF disk.package.readable
       THEN /\ disk' = ExtractApk(disk).disk
            /\ dl' = [dl EXCEPT !.pc = "done", !.after = "extracted",
                                !.warnings = ExtractApk(disk).warnings]
       ELSE /\ disk' = [disk EXCEPT !.data = [exists |-> TRUE, files |-> disk.data.files]]
            /\ dl' = [dl EXCEPT !.pc = "raised", !.failed = "extract"]
    /\ UNCHANGED <<remote, filter_vars, download_vars, key_vars, extract_vars, apk_vars>>

\* the disk an earlier run left: nothing, a package alone, or a package with
\* what extract_apk made of it
InitDownloadApk ==
    /\ \E p \in DiskPackages \cup {AbsentPackage} :
          LET bare == [package |-> p, apk |-> NoFolder, data |-> NoFolder] IN
          disk \in {bare} \cup (IF p.readable THEN {ExtractApk(bare).disk} ELSE {})
    /\ remote \in DiskPackages
    /\ dl \in {[pc |-> "start", update |-> u, after |-> "", warnings |-> {},
                status |-> 0, failed |-> ""] : u \in BOOLEAN}
    /\ FilterIdle
    /\ KeyIdle
    /\ ExtractIdle
    /\ ApkIdle
    /\ RunIdle
    /\ UrlDone
    /\ SearchIdle
    /\ AcquireIdle
    /\ IndexIdle

NextDownloadApk ==
    \/ DownloadApk
    \/ _get_response
    \/ _delete_outdated_files
    \/ WritePackage
    \/ ExtractPackage

SpecDownloadApk == InitDownloadApk /\ [][NextDownloadApk]_vars

(***************************************************************************)
(* Vocabulary of the properties.                                           *)
(***************************************************************************)
\* the entries of the categories the flags select
Selected == {e \in Entries : Categories[e[1]] \in Range(CategoryList(flags))}

RunEnded == run \in {"done", "aborted"}

\* the run of the download command (ResourceDownloader.download), not a
\* transfer started from the browser
DownloadRun == args.commands = "download"

\* the step in which the task of e returns with outcome o
Becomes(e, o) == outcome[e] = "NONE" /\ outcome'[e] = o

\* the local file of e holds exactly the bytes whose CRC-32 the manifest declares
CrcMatches(tree, e) ==
    /\ tree[file_path(e)].kind = "file"
    /\ _calculate_crc32(tree[file_path(e)].data) = FileOf(e).crc

\* the local file of e exists with another CRC-32
CrcDiffers(tree, e) ==
    /\ tree[file_path(e)].kind = "file"
    /\ _calculate_crc32(tree[file_path(e)].data) # FileOf(e).crc

(***************************************************************************)
(* C1.  With a finite limit L, at most L entries have a network operation  *)
(* (HEAD or GET) in flight at any moment.                                  *)
(* Fails: the semaphore is created and never acquired.                     *)
(***************************************************************************)
C1_InFlightWithinLimit ==
    limit # None => Cardinality(InFlight) <= limit

(***************************************************************************)
(* C2.  A transfer of the probed size whose CRC-32 differs is deleted and  *)
(* counts as a failed attempt: the entry is marked FAILED for it only when *)
(* that attempt was the last of the 3.                                     *)
(* Fails: _download_file returns after the first mismatch.                 *)
(***************************************************************************)
C2_CrcMismatchRetried ==
    [][\A e \in Entries :
         (Becomes(e, "FAILED") /\ log'[e] = "hash")
            => /\ fs'[file_path(e)] = Absent
               /\ attempt[e] = Retries - 1]_vars

(***************************************************************************)
(* C3.  An entry is accepted (SUCCEEDED) only in a step in which the bytes *)
(* written by the attempt equal the probed size and the CRC-32 of the      *)
(* written file equals the declared CRC, and the accepted file stays in    *)
(* place with that CRC.                                                    *)
(***************************************************************************)
C3_AcceptedOnlyIfSizeAndCrc ==
    /\ [](\A e \in Entries : outcome[e] = "SUCCEEDED" => CrcMatches(fs, e))
    /\ [][\A e \in Entries :
            Becomes(e, "SUCCEEDED")
               => /\ pc[e] = "stream"
                  /\ total_size[e] # None
                  /\ bytes_downloaded[e] = total_size[e]
                  /\ Len(fs'[file_path(e)].data) = total_size[e]
                  /\ CrcMatches(fs', e)]_vars

\* an entry was accepted after a transfer that changed its file
C3_Witness ==
    \E e \in Entries :
        /\ outcome[e] = "SUCCEEDED"
        /\ fs0[file_path(e)] # fs[file_path(e)]

(***************************************************************************)
(* C4.  An entry whose attempts all fail is streamed exactly 3 times and   *)
(* is then marked FAILED: the attempts are numbered 0, 1, 2, each retry    *)
(* is the next number, the entry is given up only in the failure of        *)
(* attempt 2, and that failure is followed by no further attempt.          *)
(***************************************************************************)
C4_ExactlyThreeAttempts ==
    /\ [](\A e \in Entries : attempt[e] \in 0..(Retries - 1))
    /\ [][\A e \in Entries :
            /\ (Becomes(e, "FAILED") /\ log'[e] = "exhausted")
                  => (pc[e] \in {"get", "stream"} /\ attempt[e] = Retries - 1)
            /\ (pc[e] \in {"get", "stream", "write"} /\ attempt[e] = Retries - 1)
                  => pc'[e] \in {"get", "stream", "write", "returned", "cancelled"}
            /\ (pc[e] \in {"get", "stream", "write"} /\ pc'[e] = "sleep")
                  => (attempt[e] < Retries - 1 /\ attempt'[e] = attempt[e])
            /\ (pc[e] = "sleep" /\ pc'[e] # "sleep")
                  => \/ pc'[e] = "get" /\ attempt'[e] = attempt[e] + 1
                     \/ pc'[e] = "cancelled"]_vars

\* an entry has been given up after its attempts
C4_Witness ==
    \E e \in Entries : outcome[e] = "FAILED" /\ log[e] = "exhausted"

(***************************************************************************)
(* C5.  No entry's failure aborts the batch: once the run has ended after  *)
(* an entry has failed or raised, every other selected entry has a         *)
(* terminal outcome.                                                       *)
(* Fails: an exception of one task leaves gather and ends the run.         *)
(***************************************************************************)
C5_FailureDoesNotAbort ==
    \A e \in Entries :
        (RunEnded /\ (outcome[e] = "FAILED" \/ pc[e] = "raised"))
            => \A o \in Selected \ {e} : outcome[o] \in Terminal

(***************************************************************************)
(* C6.  When a run of the download command has ended, the number of        *)
(* terminal outcomes equals the number of entries of the selected          *)
(* categories.                                                             *)
(* Fails with C5: an aborted run leaves entries without an outcome.        *)
(***************************************************************************)
C6_OneOutcomePerEntry ==
    (DownloadRun /\ RunEnded) =>
        Cardinality({e \in Entries : outcome[e] \in Terminal}) = Cardinality(Selected)

(***************************************************************************)
(* C7.  In a run of the download command: if the destination of every      *)
(* selected entry holds a file with the declared CRC-32 when the run       *)
(* starts, no HEAD and no GET is ever in                                   *)
(* flight, the tree is never changed, and the run ends with SKIPPED for    *)
(* every selected entry.                                                   *)
(***************************************************************************)
AllValidAtStart == DownloadRun /\ \A e \in Selected : CrcMatches(fs0, e)

C7_ValidSetOnlySkipped ==
    AllValidAtStart =>
        /\ \A e \in Entries : pc[e] \in {"pending", "returned"}
        /\ InFlight = {}
        /\ fs = fs0
        /\ run # "aborted"
        /\ \A e \in Entries : outcome[e] \in {"NONE", "SKIPPED"}
        /\ run = "done" => \A e \in Selected : outcome[e] = "SKIPPED"

\* a run over two categories with entries has ended with every entry skipped
C7_Witness ==
    /\ AllValidAtStart
    /\ run = "done"
    /\ Cardinality(Selected) = Cardinality(Entries)
    /\ \A e \in Entries : outcome[e] = "SKIPPED"

(***************************************************************************)
(* C8, as claimed.  An entry is skipped only if its local file matches     *)
(* both the declared size and the declared CRC-32.                         *)
(* Fails: the declared size is never compared.                             *)
(***************************************************************************)
C8_SkipNeedsSizeAndCrc ==
    \A e \in Entries :
        outcome[e] = "SKIPPED"
            => /\ CrcMatches(fs, e)
               /\ Len(fs[file_path(e)].data) = DeclaredSize(e)

(***************************************************************************)
(* C8, amended.  The first step of an entry skips it exactly when its      *)
(* local file exists with the declared CRC-32, whatever the declared size; *)
(* a local file with another CRC-32 is invalid: the entry is probed for a  *)
(* new download and is never skipped.                                      *)
(***************************************************************************)
C8_SkipIffCrcMatches ==
    /\ [](\A e \in Entries : outcome[e] = "SKIPPED" => CrcMatches(fs, e))
    /\ [][\A e \in Entries :
            (pc[e] = "pending" /\ pc'[e] # "pending")
               => /\ outcome'[e] = "SKIPPED" <=> CrcMatches(fs, e)
                  /\ CrcDiffers(fs, e) => pc'[e] = "head"]_vars

\* an entry was skipped although its file has not the declared size
C8_Witness ==
    \E e \in Entries :
        /\ outcome[e] = "SKIPPED"
        /\ Len(fs[file_path(e)].data) # DeclaredSize(e)

(***************************************************************************)
(* C9.  An entry whose file exists with a CRC-32 other than the declared   *)
(* one when the run starts is never skipped: its first step sends the      *)
(* probe, a probe that yields a size is followed by the GET, every GET     *)
(* that is answered opens the file empty (it is written from byte 0), and  *)
(* when the entry succeeds its file has the declared CRC-32.               *)
(***************************************************************************)
PartialAtStart(e) == CrcDiffers(fs0, e)

C9_PartialFileDownloadedAgain ==
    [][\A e \in Entries :
         /\ (Becomes(e, "SKIPPED") => ~PartialAtStart(e))
         /\ (Becomes(e, "SUCCEEDED") /\ PartialAtStart(e)) => CrcMatches(fs', e)
         /\ (pc[e] = "pending" /\ pc'[e] # "pending" /\ PartialAtStart(e))
               => pc'[e] = "head"
         /\ (pc[e] = "head" /\ total_size'[e] # None /\ PartialAtStart(e))
               => pc'[e] = "get"
         /\ (pc[e] = "get" /\ pc'[e] = "stream" /\ PartialAtStart(e))
               => fs'[file_path(e)] = RegularFile(<< >>)
         /\ (/\ pc[e] = "stream"
             /\ fs'[file_path(e)] # fs[file_path(e)]
             /\ PartialAtStart(e))
               => /\ pc'[e] \in {"write", "returned"}
                  /\ pc'[e] = "write"
                        => Len(fs'[file_path(e)].data) = bytes_downloaded'[e] + 1
         /\ (pc[e] = "write" /\ pc'[e] = "stream" /\ PartialAtStart(e))
               => Len(fs'[file_path(e)].data) = bytes_downloaded'[e]]_vars

\* an entry whose file was partial at the start has succeeded
C9_Witness ==
    \E e \in Entries : PartialAtStart(e) /\ outcome[e] = "SUCCEEDED"

(***************************************************************************)
(* C10, as claimed.  A HEAD that yields no size, by a client error, a      *)
(* timeout or a response without Content-Length, aborts the entry at       *)
(* once: it is not sent again, no GET follows, the failure is logged.      *)
(* Fails: a timed-out HEAD is sent again, and a missing Content-Length is  *)
(* read as size 0 and followed by the GET.                                 *)
(***************************************************************************)
ProbeAborted(e) ==
    /\ pc'[e] = "returned"
    /\ outcome'[e] = "FAILED"
    /\ log'[e] = "size"

C10_ProbeFailureAbortsAtOnce ==
    [][\A e \in Entries :
         (HeadClientError(e) \/ HeadTimeout(e) \/ HeadNoContentLength(e))
            => ProbeAborted(e)]_vars

(***************************************************************************)
(* C10, amended.  When get_file_size returns None (a client error or an    *)
(* unparsable Content-Length, or the 10th timeout in a row) the entry is   *)
(* aborted: no GET is issued for it, the failure is logged and the tree is *)
(* left as it is.  A client error is not retried; a timed-out HEAD is sent *)
(* again, at most 10 HEADs per entry; a response without Content-Length    *)
(* gives size 0 and the GET follows.                                       *)
(***************************************************************************)
C10_ProbeFailureAborts ==
    /\ [](\A e \in Entries : i[e] \in 0..(ProbeTries - 1))
    /\ [][\A e \in Entries :
            /\ (Becomes(e, "FAILED") /\ log'[e] = "size")
                  => (pc[e] = "head" /\ fs' = fs)
            /\ (pc[e] = "head" /\ pc'[e] = "returned") => ProbeAborted(e)
            /\ (pc[e] = "head" /\ pc'[e] = "get") => total_size'[e] # None
            /\ HeadClientError(e) => ProbeAborted(e)
            /\ HeadTimeout(e)
                  => IF i[e] + 1 < ProbeTries
                     THEN pc'[e] = "head" /\ i'[e] = i[e] + 1
                     ELSE ProbeAborted(e)
            /\ HeadNoContentLength(e) => (pc'[e] = "get" /\ total_size'[e] = 0)]_vars

\* one entry has been aborted at its probe while the 10th HEAD of another is in
\* flight
C10_Witness ==
    \E e, o \in Entries :
        /\ outcome[e] = "FAILED" /\ log[e] = "size"
        /\ pc[o] = "head" /\ i[o] = ProbeTries - 1

(***************************************************************************)
(* C12.  A run of the download command touches only the entries of the     *)
(* categories its flags                                                    *)
(* select: the task of an entry of another category is never started, it   *)
(* gets no outcome and its destination is left as it was; with no category *)
(* selected no request is ever in flight and the tree stays as it was.     *)
(***************************************************************************)
FlagOf(c) ==
    CASE c = 1 -> flags.androidassets
      [] c = 2 -> flags.iosassets
      [] c = 3 -> flags.tables
      [] c = 4 -> flags.media

C12_OnlySelectedCategories ==
    DownloadRun =>
        /\ \A e \in Entries :
              ~FlagOf(e[1])
                 => /\ pc[e] = "pending"
                    /\ outcome[e] = "NONE"
                    /\ fs[file_path(e)] = fs0[file_path(e)]
        /\ (\A c \in 1..Len(Categories) : ~FlagOf(c)) => (InFlight = {} /\ fs = fs0)

\* a run has ended with a download in a selected category while the entries of
\* another category were left alone
C12_Witness ==
    /\ DownloadRun
    /\ run = "done"
    /\ \E e \in Entries : ~FlagOf(e[1])
    /\ \E e \in Entries : FlagOf(e[1]) /\ outcome[e] = "SUCCEEDED"

(***************************************************************************)
(* C13.  The download command given --all selects all four categories:     *)
(* the list download() builds holds every category.                        *)
(* Fails: --all sets args.assets, args.tables and args.media, and          *)
(* download() is called with args.androidassets and args.iosassets, which  *)
(* stay False.                                                             *)
(***************************************************************************)
C13_AllSelectsFourCategories ==
    (args.all /\ run # "new") => Range(categories) = Range(Categories)

(***************************************************************************)
(* C14, as claimed.  An override that starts with `http` is resolved to    *)
(* itself.                                                                 *)
(* Fails: only an override that starts with `http://` or `https://` is     *)
(* kept; `http_x` and `httpa` are rewritten.                               *)
(***************************************************************************)
C14_HttpOverrideVerbatim ==
    (resolved # << >> /\ StartsWith(catalog_url, <<"h", "t", "t", "p">>))
        => resolved = catalog_url

(***************************************************************************)
(* C14, amended.  An override that starts with `http://` or `https://` is  *)
(* resolved to itself, whether or not it contains `_`; every other         *)
(* override is resolved to something else.                                 *)
(***************************************************************************)
IsFullUrl(u) == StartsWith(u, HttpScheme) \/ StartsWith(u, HttpsScheme)

C14_FullUrlOverrideVerbatim ==
    resolved # << >> => (IsFullUrl(catalog_url) <=> resolved = catalog_url)

\* an override with a scheme and a `_` has been resolved to itself
C14_Witness ==
    /\ resolved = catalog_url
    /\ StartsWith(catalog_url, HttpsScheme)
    /\ Contains(catalog_url, "_")

(***************************************************************************)
(* C15.  An override that is supplied and is not a full URL is resolved to *)
(* the patch root followed by the override if it contains `_`, and to      *)
(* `https://` followed by the override otherwise; a full URL containing    *)
(* `_` is left as it is, so one rule applies to each override.             *)
(***************************************************************************)
C15_TokenThenBareHost ==
    (resolved # << >> /\ catalog_url # << >>)
        => /\ (~IsFullUrl(catalog_url) /\ Contains(catalog_url, "_"))
                 => resolved = PatchRoot \o catalog_url
           /\ (~IsFullUrl(catalog_url) /\ ~Contains(catalog_url, "_"))
                 => resolved = HttpsScheme \o catalog_url
           /\ (IsFullUrl(catalog_url) /\ Contains(catalog_url, "_"))
                 => resolved = catalog_url

\* an override that begins like a scheme and holds a `_` has become a build token
C15_Witness ==
    /\ StartsWith(catalog_url, <<"h", "t", "t", "p">>)
    /\ Contains(catalog_url, "_")
    /\ resolved = PatchRoot \o catalog_url

(***************************************************************************)
(* C17.  The search goes through the directories in the order of           *)
(* search_paths (version-specific cache, bundled default, other cached     *)
(* versions) and through the files of each; it returns the payload of the  *)
(* first file that holds the signature (the bytes after its first          *)
(* occurrence without the final 2 bytes) and reads no file and no          *)
(* directory after that one; without such a file it returns None.          *)
(* Fails: a first match whose payload is empty is passed over (if result:  *)
(* is false for b''), the rest of its directory is skipped and the later   *)
(* directories are searched.                                               *)
(***************************************************************************)
\* the places <<directory, file>> of the files that hold the signature
Hits ==
    {h \in (1..Len(search_paths)) \X (1..MaxFiles) :
        /\ roots[search_paths[h[1]]].exists
        /\ h[2] <= Len(roots[search_paths[h[1]]].files)
        /\ HasPattern(roots[search_paths[h[1]]].files[h[2]], pattern)}

FirstHit ==
    CHOOSE h \in Hits :
        \A g \in Hits : h[1] < g[1] \/ (h[1] = g[1] /\ h[2] <= g[2])

C17_FirstMatchWins ==
    game_config.done =>
        /\ search_paths[1] = IF version # "" THEN version ELSE "default"
        /\ version # "" => search_paths[2] = "default"
        /\ IF Hits = {}
           THEN /\ game_config.result = NotFound
                /\ Len(game_config.read) = Len(search_paths)
           ELSE /\ game_config.result =
                     Payload(roots[search_paths[FirstHit[1]]].files[FirstHit[2]], pattern)
                /\ Len(game_config.read) = FirstHit[1]
                /\ game_config.read[FirstHit[1]] = FirstHit[2]

(***************************************************************************)
(* C16.  With a catalog URL override, resolving the manifest root and      *)
(* fetching the manifests download no package, extract no package and      *)
(* neither search nor decrypt the bootstrap blob.                          *)
(***************************************************************************)
PackageSteps ==
    {"probe", "download_apk", "extract_apk", "fetch_size", "find_game_config",
     "decrypt_game_config"}

C16_OverrideSkipsPackage ==
    catalog_url # << >> =>
        /\ \A k \in 1..Len(effects) : effects[k].step \notin PackageSteps
        /\ ~game_config.done

\* an override run whose manifests have all been fetched and indexed
C16_Witness ==
    /\ catalog_url # << >>
    /\ stage = "ready"
    /\ resolved = ServerRoot
    /\ \A m \in ManifestNames : cache[m] = "ok"

(***************************************************************************)
(* C18.  An acquisition step that fails for good (no directory holds the   *)
(* signature, the payload decrypts to invalid JSON or lacks the key, the   *)
(* version index, the server API or a manifest cannot be fetched, decoded  *)
(* or loaded) ends the run with a failure: it is the last step of its      *)
(* pass, so it is not tried again, and the program takes no step after it: *)
(* no entry is probed or transferred and GameFiles.json is not written,    *)
(* by the download command and by the browser alike.                       *)
(***************************************************************************)
Fatal(e) ==
    \/ e.step = "find_game_config" /\ e.outcome = "none"
    \/ e.step = "decrypt_game_config" /\ e.outcome \in {"badjson", "nokey"}
    \/ e.step \in {"fetch_version", "serverapi"} /\ e.outcome = "fail"
    \/ e.step \in {"android", "ios"} /\ e.outcome \in {"missing_text", "error"}
    \/ e.step \in {"table", "media2"} /\ e.outcome \in {"missing", "error"}
    \/ e.step \in {"from_bytes", "get_game_files"} /\ e.outcome = "raise"

C18_AcquisitionFailureStopsRun ==
    /\ [](\A k \in 1..Len(effects) :
            Fatal(effects[k]) => (k = Len(effects) /\ stage = "failed"))
    /\ [][stage # "failed"]_vars

\* a search that found the signature nowhere has ended the run
C18_Witness ==
    /\ stage = "failed"
    /\ game_config.done
    /\ ~game_config.result.found
    /\ effects[Len(effects)] = Effect("find_game_config", "none")

(***************************************************************************)
(* C19.  A manifest that is missing (a 404 for the remote document, or a   *)
(* cache file without it) does not make the acquisition fail.              *)
(* Fails: _fetch_bytes raises on any status but 200, .json() raises on a   *)
(* 404 page, and get_game_files raises on a cache file without the list    *)
(* of entries.                                                             *)
(***************************************************************************)
MissingManifest(k) ==
    \/ effects[k].step \in {"android", "ios"}
          /\ effects[k].outcome \in {"missing_text", "missing_json"}
    \/ effects[k].step = "table" /\ effects[k].outcome = "missing"
    \/ /\ effects[k].step = "media2" /\ effects[k].outcome = "missing"
       /\ effects[k - 1] = Effect("media1", "missing")

C19_MissingManifestNotFatal ==
    (stage = "failed" /\ effects # << >>) =>
        /\ ~MissingManifest(Len(effects))
        /\ effects[Len(effects)].step # "get_game_files"

(***************************************************************************)
(* C11.  The work items of a category, which are gathered together, map to *)
(* pairwise distinct output paths.                                         *)
(* Fails: nothing keys the work items on their paths; two entries whose    *)
(* URLs end in the same base name (x/a and y/a), an entry listed twice, or *)
(* two media paths that differ in the separator only, get the same path.   *)
(***************************************************************************)
C11_DistinctOutputPaths ==
    index.built =>
        \A c \in DOMAIN index.files :
            \A j, k \in 1..Len(index.files[c]) :
                j # k => OutputPath(c, index.files[c][j]) # OutputPath(c, index.files[c][k])

(***************************************************************************)
(* C20.  get_game_files gives one index entry per manifest entry, in       *)
(* manifest order; its URL is root/segment/name-or-path and its CRC and    *)
(* size are those of the manifest, or 0 when absent.                       *)
(* As stated this fails for a media path written with "\\": the URL (and   *)
(* the path) of a media entry has every "\\" replaced by "/".  The         *)
(* amended statement takes the replacement into the URL rule.              *)
(***************************************************************************)
\* the name or path, the CRC and the size the manifest gives for entry k of a
\* category
Listed(c, k) ==
    CASE c = "AndroidAssetBundles" ->
            [segment |-> "Android", name |-> manifests.android[k].Name,
             fields |-> manifests.android[k], crc |-> "Crc", size |-> "Size"]
      [] c = "iOSAssetBundles" ->
            [segment |-> "iOS", name |-> manifests.ios[k].Name,
             fields |-> manifests.ios[k], crc |-> "Crc", size |-> "Size"]
      [] c = "TableBundles" ->
            [segment |-> "TableBundles", name |-> manifests.table[k].key,
             fields |-> manifests.table[k].asset, crc |-> "crc", size |-> "size"]
      [] c = "MediaResources" ->
            [segment |-> "MediaResources", name |-> manifests.media[k].value.path,
             fields |-> manifests.media[k].value, crc |-> "crc", size |-> "bytes"]

ListedCount(c) ==
    CASE c = "AndroidAssetBundles" -> Len(manifests.android)
      [] c = "iOSAssetBundles" -> Len(manifests.ios)
      [] c = "TableBundles" -> Len(manifests.table)
      [] c = "MediaResources" -> Len(manifests.media)

JoinedUrl(c, k) == resolved \o <<"/", Listed(c, k).segment, "/">> \o Listed(c, k).name

FieldOrZero(r, f) == IF f \in DOMAIN r THEN r[f] ELSE 0

SizeOf(file) == IF "size" \in DOMAIN file THEN file.size ELSE file.bytes

\* all of the statement but the URL rule
CountCrcSize ==
    \A c \in DOMAIN index.files :
        /\ c \in Range(Categories)
        /\ Len(index.files[c]) = ListedCount(c)
        /\ \A k \in 1..ListedCount(c) :
              /\ index.files[c][k].crc = FieldOrZero(Listed(c, k).fields, Listed(c, k).crc)
              /\ SizeOf(index.files[c][k]) =
                     FieldOrZero(Listed(c, k).fields, Listed(c, k).size)

\* the statement as it stands
C20_IndexEntryPerManifestEntry ==
    index.built =>
        /\ DOMAIN index.files = Range(Categories)
        /\ CountCrcSize
        /\ \A c \in DOMAIN index.files : \A k \in 1..ListedCount(c) :
              index.files[c][k].url = JoinedUrl(c, k)

\* amended: the URL of a media entry is the joined URL with every "\\"
\* replaced by "/"
C20_IndexEntryWithMediaSeparators ==
    index.built =>
        /\ DOMAIN index.files = Range(Categories)
        /\ CountCrcSize
        /\ \A c \in DOMAIN index.files : \A k \in 1..ListedCount(c) :
              index.files[c][k].url =
                  IF c = "MediaResources"
                  THEN [n \in 1..Len(JoinedUrl(c, k)) |->
                           IF JoinedUrl(c, k)[n] = "\\" THEN "/" ELSE JoinedUrl(c, k)[n]]
                  ELSE JoinedUrl(c, k)

\* an index built from an Android entry without Crc and Size and from a media
\* path written with "\\"
C20_Witness ==
    /\ index.built
    /\ \E k \in 1..Len(manifests.android) :
          /\ DOMAIN manifests.android[k] = {"Name"}
          /\ index.files.AndroidAssetBundles[k].crc = 0
    /\ \E k \in 1..Len(manifests.media) :
          /\ \E n \in 1..Len(manifests.media[k].value.path) :
                manifests.media[k].value.path[n] = "\\"
          /\ index.files.MediaResources[k].path = <<"d", "/", "m">>
    /\ manifests.table # << >>
    /\ manifests.ios # << >>

(***************************************************************************)
(* C21.  The password of a container opened without one depends only on    *)
(* the lower-cased base name of the file: two such containers whose names  *)
(* are equal ignoring case have the same password, whatever their          *)
(* directories.  A password that is supplied is kept as it is and nothing  *)
(* is derived.                                                             *)
(***************************************************************************)
\* the letter without its case
Caseless(ch) == IF ch \in {"a", "A"} THEN "a" ELSE "b"

BaseName(file) == file[Len(file)]

EqualIgnoringCase(m, n) ==
    Len(m) = Len(n) /\ \A k \in 1..Len(m) : Caseless(m[k]) = Caseless(n[k])

C21_PasswordFromLowerCasedName ==
    /\ \A j, k \in 1..Len(opened) :
          (/\ ~opened[j].supplied
           /\ ~opened[k].supplied
           /\ EqualIgnoringCase(BaseName(opened[j].file), BaseName(opened[k].file)))
              => opened[j].password = opened[k].password
    /\ \A k \in 1..Len(opened) :
          opened[k].supplied =>
              opened[k].password = opened[k].given /\ ~opened[k].generated

\* A in the working directory and a in directory b have been opened by name, and
\* their password has the 20 digits of 15 bytes
C21_Witness ==
    /\ Len(opened) = 2
    /\ opened[1].file = <<<<"A">>>>
    /\ opened[2].file = <<<<"b">>, <<"a">>>>
    /\ ~opened[1].supplied /\ ~opened[2].supplied
    /\ opened[1].password = opened[2].password
    /\ Len(opened[1].password) = 20

(***************************************************************************)
(* C24.  Two derivations with the same seed give the same bytes, and the   *)
(* shorter of two derivations with the same seed is a prefix of the        *)
(* longer, whichever was made first.                                       *)
(***************************************************************************)
IsPrefix(a, b) == Len(a) <= Len(b) /\ a = SubSeq(b, 1, Len(a))

C24_DeriveStreamPureAndStreamable ==
    \A j, k \in 1..Len(derived) :
        (derived[j].seed = derived[k].seed /\ derived[j].length <= derived[k].length)
            => /\ Len(derived[j].bytes) = derived[j].length
               /\ IsPrefix(derived[j].bytes, derived[k].bytes)

\* the same seed was used twice, first for more than a word and then for fewer
\* bytes
C24_Witness ==
    /\ Len(derived) = 2
    /\ derived[1].seed = derived[2].seed
    /\ derived[1].length > 4
    /\ derived[2].length < derived[1].length
    /\ derived[2].length > 0

(***************************************************************************)
(* C25.  Decrypting what was encrypted with the same key gives the         *)
(* plaintext back; the ciphertext is the plaintext XORed with the key cut  *)
(* or repeated to its length, and decryption is that same operation.       *)
(***************************************************************************)
KeyAt(k) == cipher.key[((k - 1) % Len(cipher.key)) + 1]

C25_CipherSymmetric ==
    /\ cipher.stage # "none" =>
          /\ Len(b64decode(cipher.text)) = Len(cipher.plain)
          /\ \A k \in 1..Len(cipher.plain) :
                b64decode(cipher.text)[k] = Xor16(cipher.plain[k], KeyAt(k))
    /\ cipher.stage = "decrypted" => cipher.back = cipher.plain

\* a plaintext longer than its key has gone through both operations
C25_Witness ==
    /\ cipher.stage = "decrypted"
    /\ Len(cipher.plain) > Len(cipher.key)
    /\ cipher.text # cipher.plain
    /\ cipher.back = cipher.plain

(***************************************************************************)
(* C22.  The archive handle of an extraction pass is released on every way *)
(* out of the pass: the end of the loop, an error raised while a member is *)
(* read (caught or not), and a failure while the handle is built; a pass   *)
(* that has ended never leaves its archive open.                           *)
(***************************************************************************)
C22_HandleReleased ==
    \A a \in 1..Len(passes) : passes[a].pc = "ended" => passes[a].handle # "open"

\* a run in which one pass ended by an error nothing catches, after it had
\* opened its archive, and another failed while the handle was built
C22_Witness ==
    /\ xpc = "raised"
    /\ \E a, b \in 1..Len(passes) :
          /\ passes[a].raised = "zlib.error" /\ passes[a].handle = "closed"
          /\ ~archives[b].zip /\ passes[b].pc = "ended"

(***************************************************************************)
(* C23.  An error while one member is read does not stop the extraction of *)
(* the others: when the run is over, every readable member of every        *)
(* archive has been extracted.                                             *)
(* Fails: the try statement of extract_media encloses the whole loop, so   *)
(* the first member that cannot be read ends the pass of its archive and   *)
(* the members after it are never read.                                    *)
(***************************************************************************)
C23_ErrorKeepsOtherMembers ==
    (xpc \in {"done", "raised"} /\ passes # << >>) =>
        \A a \in 1..Len(archives) :
            \A k \in 1..Len(archives[a].members) :
                archives[a].members[k] = "good" => k \in passes[a].extracted

(***************************************************************************)
(* C26.  The extract command given --all runs the three extractions:       *)
(* tables, asset bundles and media.                                        *)
(* Fails: extracter returns after the first extracter it runs, and with    *)
(* --all that is TableExtracter.                                           *)
(***************************************************************************)
C26_AllRunsThreeExtractions ==
    (command.all /\ xpc = "done") =>
        /\ "TableExtracter" \in Range(ran)
        /\ "MediaExtracter" \in Range(ran)
        /\ Range(ran) \cap {"AssetExtracter", "AssetStudioExtracter"} # {}

(***************************************************************************)
(* C27.  The steps of an entry follow one another: streaming starts only   *)
(* once the size probe has returned a size, the file is verified only at   *)
(* the end of a streaming attempt that delivered exactly the probed size,  *)
(* a retry starts only out of the sleep that followed the previous         *)
(* attempt, and while one step goes on the counters of the others rest.    *)
(***************************************************************************)
\* the step in which _verify_download is called for e
Verifies(e) ==
    /\ outcome[e] = "NONE"
    /\ outcome'[e] = "SUCCEEDED" \/ log'[e] = "hash"

C27_StepsSequential ==
    [][\A e \in Entries :
          /\ (pc'[e] \in {"get", "stream"} /\ pc'[e] # pc[e] /\ pc[e] # "write") =>
                /\ pc[e] \in {"head", "get", "sleep"}
                /\ total_size'[e] # None /\ i'[e] = 0
          /\ (pc'[e] = "write" /\ pc[e] # "write") =>
                /\ pc[e] = "stream"
                /\ bytes_downloaded'[e] = bytes_downloaded[e]
          /\ (pc[e] = "write" /\ pc'[e] # "write") =>
                \/ pc'[e] = "stream" /\ bytes_downloaded'[e] = bytes_downloaded[e] + 1
                \/ pc'[e] = "cancelled"
          /\ pc'[e] = "head" => (attempt'[e] = 0 /\ bytes_downloaded'[e] = 0)
          /\ Verifies(e) =>
                /\ pc[e] = "stream"
                /\ total_size[e] # None
                /\ bytes_downloaded[e] = total_size[e]
          /\ attempt'[e] > attempt[e] =>
                /\ pc[e] = "sleep" /\ pc'[e] = "get"
                /\ bytes_downloaded[e] = 0 /\ bytes_downloaded'[e] = 0]_vars

\* a retry has streamed exactly the probed size and is about to be verified
C27_Witness ==
    \E e \in Entries :
        /\ pc[e] = "stream" /\ attempt[e] >= 1
        /\ total_size[e] > 0 /\ bytes_downloaded[e] = total_size[e]

(***************************************************************************)
(* C28.  The sleep after a failed attempt lasts 1 after the first attempt  *)
(* and doubles with each further one; every retry comes out of such a      *)
(* sleep; no sleep follows the last attempt, whose failure ends the entry. *)
(***************************************************************************)
RECURSIVE Doubled(_)
Doubled(n) == IF n = 0 THEN 1 ELSE 2 * Doubled(n - 1)

C28_BackoffDoubles ==
    [][\A e \in Entries :
          /\ (pc'[e] = "sleep" /\ pc[e] # "sleep") =>
                /\ delay'[e] = Doubled(attempt[e])
                /\ attempt[e] + 1 < Retries
                /\ attempt'[e] = attempt[e]
          /\ attempt'[e] > attempt[e] =>
                /\ pc[e] = "sleep" /\ delay[e] = Doubled(attempt[e])
                /\ attempt'[e] = attempt[e] + 1
          /\ (outcome[e] = "NONE" /\ log'[e] = "exhausted") =>
                /\ pc[e] # "sleep"
                /\ attempt[e] = Retries - 1]_vars

\* the entry sleeps 2 after its second failed attempt
C28_Witness ==
    \E e \in Entries : pc[e] = "sleep" /\ attempt[e] = 1 /\ delay[e] = 2

(***************************************************************************)
(* C29.  The package URLs are probed in the order versionCode-APK,         *)
(* versionCode-XAPK (both only for a version that begins with "1." and     *)
(* has a non-zero third component), version-APK, version-XAPK; the first   *)
(* URL whose answer is no HTML page is returned and nothing is probed      *)
(* after it; when every URL was rejected, by an HTML page or by an error,  *)
(* the latest package is returned.                                         *)
(***************************************************************************)
HasVersionCode ==
    /\ Len(apk_version) >= 3
    /\ apk_version[1] = "1"
    /\ apk_version[3] \notin {"0", ""}

Candidates ==
    (IF HasVersionCode
     THEN <<[kind |-> "APK", param |-> "versionCode", value |-> <<apk_version[3]>>],
            [kind |-> "XAPK", param |-> "versionCode", value |-> <<apk_version[3]>>]>>
     ELSE << >>)
        \o <<[kind |-> "APK", param |-> "version", value |-> apk_version],
             [kind |-> "XAPK", param |-> "version", value |-> apk_version]>>

\* the probe was answered by an HTML page or ended in an error
Rejected(probe) ==
    \/ probe.response.raised
    \/ probe.response.content \in {<<"<!DOCTYPE">>, <<"<html">>, <<"<HTML">>}

C29_UrlsProbedInOrder ==
    apk_version # <<"">> =>
        /\ Len(probes) <= Len(Candidates)
        /\ \A k \in 1..Len(probes) :
              /\ probes[k].url = Candidates[k]
              /\ k < Len(probes) => Rejected(probes[k])
              /\ ~Rejected(probes[k]) => apk_url = probes[k].url
        /\ apk_url # NoUrl =>
              \/ /\ probes # << >>
                 /\ ~Rejected(probes[Len(probes)])
                 /\ apk_url = probes[Len(probes)].url
              \/ /\ Len(probes) = Len(Candidates)
                 /\ \A k \in 1..Len(probes) : Rejected(probes[k])
                 /\ apk_url = [kind |-> "XAPK", param |-> "version",
                               value |-> <<"latest">>]

\* both versionCode URLs were rejected, one by an error and one by an HTML
\* page, and the version-APK URL that was probed next is returned
C29_Witness ==
    /\ Len(probes) = 3
    /\ probes[1].url.param = "versionCode" /\ probes[1].response.raised
    /\ probes[2].url.param = "versionCode" /\ probes[2].response.content = <<"<html">>
    /\ apk_url = [kind |-> "APK", param |-> "version", value |-> apk_version]

(***************************************************************************)
(* C30.  A package that holds a wrapper-only entry is taken as multi-part, *)
(* whatever else it holds and whatever its extension; without such an      *)
(* entry it is taken as a single archive exactly when ZipFile can read it  *)
(* and an entry ends in an application-only name or the extension is that  *)
(* of an application.  A file ZipFile cannot read is taken as multi-part,  *)
(* whatever its extension.                                                 *)
(***************************************************************************)
HasWrapperIndicator ==
    \E entry \in package.names :
        entry \in {<<"manifest.json">>, <<"com.YostarJP.BlueArchive.apk">>,
                   <<"UnityDataAssetPack.apk">>}

HasApplicationIndicator ==
    \E entry \in package.names :
        entry[Len(entry)] \in {"AndroidManifest.xml", "classes.dex", "resources.arsc"}

HasApplicationExtension ==
    package.suffix \in {<<".", "a", "p", "k">>, <<".", "A", "P", "K">>}

C30_WrapperIndicatorWins ==
    package.stage \in {"extracted", "raised"} =>
        /\ package.regular <=>
              /\ package.readable
              /\ ~HasWrapperIndicator
              /\ HasApplicationIndicator \/ HasApplicationExtension
        /\ package.route = IF package.regular THEN "_extract_regular_apk"
                                              ELSE "_extract_xapk"

\* C30 as it was stated: without a wrapper-only entry a package is taken as
\* a single archive exactly when it holds an application-only entry or has
\* the extension of an application.
\* Fails: a file with the extension .apk that ZipFile cannot read has no
\* wrapper-only entry, and the except clause of _is_regular_apk answers
\* False for it.
C30_ClassifiedByIndicators ==
    package.stage \in {"extracted", "raised"} =>
        /\ HasWrapperIndicator => ~package.regular
        /\ ~HasWrapperIndicator =>
              (package.regular <=> (HasApplicationIndicator \/ HasApplicationExtension))

\* a package with a wrapper-only entry, an application-only entry and the
\* extension of an application went to the multi-part extraction
C30_Witness ==
    /\ package.stage = "extracted" /\ package.readable
    /\ HasWrapperIndicator /\ HasApplicationIndicator /\ HasApplicationExtension
    /\ package.route = "_extract_xapk"

(***************************************************************************)
(* C32.  The media index is asked for at                                   *)
(* /MediaResources/Catalog/MediaCatalog.bytes first (media1) and at        *)
(* /MediaResources/MediaCatalog.bytes (media2) only after the first        *)
(* request failed; the first success is used and nothing is asked for      *)
(* after it in that fetch; the fetch fails only when both requests failed. *)
(***************************************************************************)
C32_MediaPathsInOrder ==
    /\ \A k \in 1..Len(effects) :
          /\ effects[k].step = "media2" =>
                /\ k > 1
                /\ effects[k - 1].step = "media1"
                /\ effects[k - 1].outcome # "ok"
          /\ (effects[k].step = "media1" /\ effects[k].outcome # "ok") =>
                /\ k < Len(effects)
                /\ effects[k + 1].step = "media2"
          /\ (effects[k].step \in {"media1", "media2"} /\ effects[k].outcome = "ok") =>
                /\ \A j \in (k + 1)..Len(effects) :
                      effects[j].step \notin {"media1", "media2"}
                /\ stage # "failed" \/ k < Len(effects)
    /\ (stage = "failed" /\ effects # << >>
            /\ effects[Len(effects)].step \in {"media1", "media2"}) =>
          /\ Len(effects) > 1
          /\ effects[Len(effects)].step = "media2"
          /\ effects[Len(effects)].outcome # "ok"
          /\ effects[Len(effects) - 1].step = "media1"
          /\ effects[Len(effects) - 1].outcome # "ok"

\* the first path gave a 404, the second one the index, and the run went on
C32_Witness ==
    /\ stage = "ready"
    /\ \E k \in 1..(Len(effects) - 1) :
          /\ effects[k] = Effect("media1", "missing")
          /\ effects[k + 1] = Effect("media2", "ok")

(***************************************************************************)
(* C37.  fetch_catalogs updates the cache all-or-nothing: when the fetch   *)
(* or the decoding of one of the four documents fails, none of the four    *)
(* cache files has been modified (each is absent, or as an earlier pass    *)
(* left it).                                                               *)
(* Fails: each document is written to its cache file as soon as it has     *)
(* been fetched, before the next one is asked for.                         *)
(***************************************************************************)
C37_CacheAllOrNothing ==
    (stage = "failed" /\ effects # << >>
        /\ effects[Len(effects)].step \in
              {"android", "ios", "table", "media1", "media2", "from_bytes"})
        => \A m \in ManifestNames : cache[m] \in {"absent", "old"}

(***************************************************************************)
(* C33.  The selected categories are processed one after another in the    *)
(* order of the index: an entry of a later category is not started before  *)
(* every entry of the earlier selected categories has its outcome, and the *)
(* entries that are at work at one moment belong to one category.          *)
(***************************************************************************)
AtWork == {e \in Entries : pc[e] \in {"head", "get", "stream", "write", "sleep"}}

C33_CategoriesInOrder ==
    /\ \A e \in Entries, f \in Entries :
          (/\ f[1] < e[1]
           /\ pc[e] # "pending"
           /\ Categories[f[1]] \in Range(categories))
              => outcome[f] \in {"SKIPPED", "SUCCEEDED", "FAILED"}
    /\ \A e \in AtWork, f \in AtWork : e[1] = f[1]

\* an entry of a later category streams after an entry of an earlier selected
\* category has failed
C33_Witness ==
    \E e \in Entries, f \in Entries :
        /\ f[1] < e[1]
        /\ pc[e] = "stream"
        /\ outcome[f] = "FAILED"

(***************************************************************************)
(* C36.  An entry whose processing ended without success leaves no file at *)
(* its destination; so every destination file of a processed entry that    *)
(* is there when the run is over has the declared CRC-32.                  *)
(* Fails: only a CRC mismatch unlinks the file; a failed probe leaves the  *)
(* file that was there, and exhausted attempts leave what the last         *)
(* attempt wrote.                                                          *)
(***************************************************************************)
C36_NoFileAfterFailure ==
    \A e \in Entries :
        /\ outcome[e] = "FAILED" => fs[file_path(e)].kind # "file"
        /\ (run = "done" /\ outcome[e] # "NONE" /\ fs[file_path(e)].kind = "file")
              => _calculate_crc32(fs[file_path(e)].data) = FileOf(e).crc

(***************************************************************************)
(* C31.  When a multi-part package lacks one of the nested application     *)
(* archives, a warning is issued for it and the extraction goes on: every  *)
(* nested archive the package holds is extracted into data/ and the run    *)
(* does not abort.                                                         *)
(***************************************************************************)
\* extract_apk has gone through a package with the wrapper's manifest
XapkExtracted ==
    /\ dl.after = "extracted"
    /\ <<"manifest.json">> \in disk.package.names

C31_MissingNestedArchiveWarned ==
    /\ XapkExtracted =>
          /\ dl.pc = "done"
          /\ \A n \in {<<"UnityDataAssetPack.apk">>, <<"com.YostarJP.BlueArchive.apk">>} :
                IF n \in disk.package.names
                THEN [name |-> n, from |-> disk.package] \in disk.data.files
                ELSE n \in dl.warnings
    /\ (dl.pc = "raised" /\ dl.failed = "extract") => ~disk.package.readable

\* the first nested archive was missing and the second one was extracted
C31_Witness ==
    /\ XapkExtracted
    /\ dl.warnings = {<<"UnityDataAssetPack.apk">>}
    /\ [name |-> <<"com.YostarJP.BlueArchive.apk">>, from |-> disk.package]
          \in disk.data.files

(***************************************************************************)
(* C34.  Whenever download_apk returns normally, the package at apk_path   *)
(* has been extracted after its last download: data/ exists and holds what *)
(* the package holds.                                                      *)
(* Fails: when the local file is smaller than the remote one, the package  *)
(* is downloaded again, after apk/ and data/ were deleted, and download_apk*)
(* returns without extract_apk.                                            *)
(***************************************************************************)
C34_ExtractedAfterDownload ==
    dl.pc = "done" =>
        /\ disk.data.exists
        /\ \A n \in disk.package.names \cap Range(NestedArchives) :
              [name |-> n, from |-> disk.package] \in disk.data.files
        /\ <<"AndroidManifest.xml">> \in disk.package.names =>
              [name |-> <<"self">>, from |-> disk.package] \in disk.data.files

(***************************************************************************)
(* C35.  When the connection of a forced download fails, the run exits     *)
(* with status 1 and the package file and the folders apk/ and data/ are   *)
(* as they were; the folders are deleted only once a response is there.    *)
(***************************************************************************)
C35_ConnectionFailureKeepsFiles ==
    [][/\ (dl.pc = "force" /\ dl'.pc = "exit") => (dl'.status = 1 /\ disk' = disk)
       /\ dl.pc \in {"start", "force"} => disk' = disk
       /\ ((disk.apk.exists /\ ~disk'.apk.exists) \/ (disk.data.exists /\ ~disk'.data.exists))
             => dl.pc = "delete"]_vars

\* a forced update has ended in SystemExit(1) with the package and its
\* folders still there
C35_Witness ==
    /\ dl.pc = "exit" /\ dl.status = 1 /\ dl.failed = "response" /\ dl.update
    /\ disk.package.exists /\ disk.apk.exists /\ disk.data.exists
    /\ disk.data.files # {}

(***************************************************************************)
(* CatalogFilter and the filter branch of initialize_download.  A string   *)
(* is the sequence of its characters; "/" separates the parts of a path.   *)
(* stored is the index written to GameFiles.json, filtered.result what     *)
(* filter_files returns and filtered.returned the items() of what          *)
(* initialize_download returns, << >> for the empty dictionary.            *)
(***************************************************************************)
score_cutoff == 85

\* the length of the longest common subsequence
RECURSIVE Lcs(_, _)
Lcs(a, b) ==
    IF a = << >> \/ b = << >> THEN 0
    ELSE IF Head(a) = Head(b) THEN 1 + Lcs(Tail(a), Tail(b))
    ELSE LET x == Lcs(Tail(a), b)
             y == Lcs(a, Tail(b))
         IN IF x >= y THEN x ELSE y

\* extractOne(query, [name], scorer=fuzz.token_sort_ratio, score_cutoff): the
\* score 200 * lcs / (len + len) of two strings without blanks reaches the cutoff
extractOne(query, name) ==
    200 * Lcs(query, name) >= score_cutoff * (Len(query) + Len(name))

\* {name: entry for entry in entries}: the items() of the dictionary, a name at
\* the place of its first entry with the data of its last one
Choices(entries, key) ==
    LET name(k) == _get_name_from_url(entries[k][key])
        firsts == {k \in 1..Len(entries) : \A j \in 1..(k - 1) : name(j) # name(k)}
        lastOf(k) == CHOOSE j \in 1..Len(entries) :
                        /\ name(j) = name(k)
                        /\ \A h \in 1..Len(entries) : name(h) = name(k) => h <= j
        RECURSIVE items(_)
        items(k) ==
            IF k > Len(entries) THEN << >>
            ELSE (IF k \in firsts
                  THEN <<[name |-> name(k), data |-> entries[lastOf(k)]]>>
                  ELSE << >>) \o items(k + 1)
    IN items(1)

\* _find_matches(pattern, choices)
_find_matches(pat, choices) ==
    LET Within(it) == HasPattern(lower(it.name), lower(pat))
        Near(it) == extractOne(lower(pat), it.name)
        matches == SelectSeq(choices, Within)
    IN IF matches # << >> THEN matches ELSE SelectSeq(choices, Near)

\* filter_files(pattern) on the index game_files
filter_files(gf, pat) ==
    LET asset(it) == [url |-> it.data.url, crc |-> it.data.crc,
                      size |-> Get(it.data, "size", 0), name |-> it.name]
        media(it) == [url |-> it.data.url, path |-> it.data.path, crc |-> it.data.crc,
                      size |-> Get(it.data, "bytes", 0), name |-> it.name]
        results(c, key, Make(_)) ==
            LET m == _find_matches(pat, Choices(gf[c], key))
            IN [k \in 1..Len(m) |-> Make(m[k])]
    IN [AndroidAssetBundles |-> results("AndroidAssetBundles", "url", asset),
        iOSAssetBundles |-> results("iOSAssetBundles", "url", asset),
        TableBundles |-> results("TableBundles", "url", asset),
        MediaResources |-> results("MediaResources", "path", media)]

\* dict.items()
Items(gf) == [c \in 1..Len(Categories) |-> [category |-> Categories[c],
                                            files |-> gf[Categories[c]]]]

\* the actions of this part leave the other parts alone
FilterFrame == UNCHANGED <<download_vars, key_vars, extract_vars, apk_vars, pkg_vars>>

\* initialize_download up to the filter: GameFiles.json is saved; without a
\* pattern the index is returned as it is
SaveGameFiles ==
    /\ filtered.stage = "start"
    /\ filtered' = IF filter_pattern = << >>
                   THEN [filtered EXCEPT !.stage = "returned", !.returned = Items(stored)]
                   ELSE [filtered EXCEPT !.stage = "saved"]
    /\ UNCHANGED <<stored, filter_pattern>>
    /\ FilterFrame

\* CatalogFilter(game_files_path).filter_files(self.filter_pattern)
FilterFiles ==
    /\ filtered.stage = "saved"
    /\ filtered' = [filtered EXCEPT !.stage = "filtered",
                                    !.result = filter_files(stored, filter_pattern)]
    /\ UNCHANGED <<stored, filter_pattern>>
    /\ FilterFrame

\* if not any(filtered_result.values()): return {}
ReturnFiltered ==
    /\ filtered.stage = "filtered"
    /\ filtered' = [filtered EXCEPT
                       !.stage = "returned",
                       !.returned = IF \A c \in Range(Categories) : filtered.result[c] = << >>
                                    THEN << >>
                                    ELSE Items(filtered.result)]
    /\ UNCHANGED <<stored, filter_pattern>>
    /\ FilterFrame

\* the entries the indexes tried are made of: names that differ by case only
\* from a pattern, a name close to a pattern, urls that end with "/" or "/.",
\* media of one base name in two directories
StoredAssets ==
    {[url |-> <<"s", "/">> \o n.name, crc |-> n.crc, size |-> 1] :
        n \in {[name |-> <<"a">>, crc |-> 1], [name |-> <<"A", "B">>, crc |-> 2],
               [name |-> <<"a", "b", "a">>, crc |-> 3]}}

StoredTables ==
    {[url |-> <<"s", "/", "t", "/", "B">>, crc |-> 4, size |-> 1],
     [url |-> <<"s", "/", "t", "/", "a", "/">>, crc |-> 9, size |-> 1],
     [url |-> <<"s", "/", "a", "b", "/", ".">>, crc |-> 10, size |-> 1]}

StoredMedia ==
    {[url |-> <<"s", "/", "m", "/">> \o m.path, path |-> m.path, crc |-> m.crc,
      bytes |-> 1] :
        m \in {[path |-> <<"d", "/", "a">>, crc |-> 5],
               [path |-> <<"e", "/", "a">>, crc |-> 6],
               [path |-> <<"d", "/", "a", "b", "a">>, crc |-> 7],
               [path |-> <<"B">>, crc |-> 8]}}

Patterns ==
    {<< >>, <<"a">>, <<"A", "b">>, <<"a", "b", "a", "b">>, <<"b", "b">>}

InitFilter ==
    /\ stored \in [AndroidAssetBundles : SeqsOf(StoredAssets, MaxEntries),
                   iOSAssetBundles : SeqsOf(StoredTables, 1),
                   TableBundles : SeqsOf(StoredTables, 1),
                   MediaResources : SeqsOf(StoredMedia, MaxEntries)]
    /\ filter_pattern \in Patterns
    /\ filtered = [stage |-> "start", result |-> NoIndex, returned |-> << >>]
    /\ PkgIdle /\ KeyIdle /\ ExtractIdle /\ ApkIdle
    /\ RunIdle /\ UrlDone /\ SearchIdle /\ AcquireIdle /\ IndexIdle

NextFilter == SaveGameFiles \/ FilterFiles \/ ReturnFiltered

SpecFilter == InitFilter /\ [][NextFilter]_vars

(***************************************************************************)
(* C38.  filter_files returns, per category, only entries of the stored    *)
(* index, each with its url and crc unchanged, and every entry whose file  *)
(* name contains the pattern ignoring case, media entries of one base name *)
(* in different directories included; a pattern that matches no entry in   *)
(* any category leads to no download at all.                               *)
(* Fails: the choices are a dictionary keyed by the base name, so of the   *)
(* media entries that share a base name only the last one is returned.     *)
(***************************************************************************)
\* the name an entry of category c is matched by
NameIn(c, entry) ==
    _get_name_from_url(IF c = "MediaResources" THEN entry.path ELSE entry.url)

C38_FilterReturnsEveryMatch ==
    /\ (filtered.stage \in {"filtered", "returned"} /\ filter_pattern # << >>) =>
          \A c \in Range(Categories) :
              /\ \A r \in Range(filtered.result[c]) :
                    \E e \in Range(stored[c]) : e.url = r.url /\ e.crc = r.crc
              /\ \A e \in Range(stored[c]) :
                    HasPattern(lower(NameIn(c, e)), lower(filter_pattern))
                        => \E r \in Range(filtered.result[c]) :
                              r.url = e.url /\ r.crc = e.crc
    /\ (/\ filtered.stage = "returned"
        /\ filter_pattern # << >>
        /\ \A c \in Range(Categories) : filtered.result[c] = << >>)
          => filtered.returned = << >>

====
